---- MODULE Spec2Model ----
(***************************************************************************)
(* A model of the core of the constraint solver of                         *)
(* src/src/constraint_solver/constraint_solver.cc: the compressed trail,   *)
(* the reversible trail with its state markers, the propagation queue and  *)
(* the search loop.  Each group of operations has its own specification   *)
(* over the shared variables.                                              *)
(***************************************************************************)
EXTENDS Integers, Sequences, FiniteSets, TLC

\* ------------------------------------------------------------------ bounds
\* Largest trail block size tried (SolverParameters::trail_block_size).
MaxBlockSize == 2
\* Longest logical sequence pushed on one compressed trail.
MaxTrailLen == 5

\* Largest number of cells on the trail, all kinds together.
MaxSaves == 2
\* Largest value of the queue stamp at which a client still pushes a state.
MaxStamp == 4

\* Largest number of demons enqueued in one behaviour of the queue.
MaxDemonRuns == 3
\* Largest value of the queue stamp at which a caller still freezes the queue.
MaxQueueStamp == 3

\* Depth of the tree of the DecisionBuilder.
MaxDepth == 2
\* Largest number of searches a client opens (NewSearch or Solve).
MaxSearches == 1
\* Markers pushed above the sentinel of the constructor, and cells saved,
\* before BacktrackToSentinel is called.
MaxMarkers == 3
MaxSentinelSaves == 1
\* Largest stamp of the queue at which Freeze and PushState are called on a
\* queue with pending demons, and the demons enqueued on it.
MaxPendingStamp == 4
MaxPendingRuns == 2
\* Failures of a propagation.
MaxFails == 2

VARIABLES
  parameters,   \* SolverParameters: trail_block_size, compress_trail
  cts,          \* one CompressedTrail per compression mode, driven in lockstep
  ref,          \* the plain sequence of the cells pushed and not popped
  solver,       \* the Solver: memory, trail_, searches_, queue_, state_, counters
  stack,        \* the call stack: the frames of the functions being executed
  g_snap,       \* history: the memory at each PushState still on the stack
  g_last,       \* history: the last operation and what it expects
  g_window,     \* history: per demon, dispatches since the stamp last increased
  g_order,      \* history: per priority, the pending demons in enqueue order
  g_search      \* history: the leaves reported and the nodes visited by a search

vars ==
  <<parameters, cts, ref, solver, stack, g_snap, g_last, g_window, g_order,
    g_search>>

\* ------------------------------------------------------- addrval, packers
NO_COMPRESSION == "NO_COMPRESSION"
COMPRESS_WITH_ZLIB == "COMPRESS_WITH_ZLIB"
TrailCompression == {NO_COMPRESSION, COMPRESS_WITH_ZLIB}

\* Only({F(x) : x \in {e}}) is F(e): the bound x holds the value of e, which
\* is evaluated once however many times F uses it.  The operators on the
\* solver take their first argument this way.
Only(set) == CHOOSE x \in set : TRUE

\* addrval<T>: an address and the value that was at the address.
addrval(adr, old) == [address_ |-> adr, old_value_ |-> old]

\* addrval() : address_(NULL); the arrays are zeroed by memset.
ZeroCell == addrval(0, 0)

\* new addrval<T>[block_size] followed by memset(.., 0, ..).
ZeroBlock(block_size) == [i \in 1..block_size |-> ZeroCell]

\* The bytes of a block, in memory order: address then old value of each cell.
RECURSIVE BlockBytes(_)
BlockBytes(block) ==
  IF Len(block) = 0 THEN <<>>
  ELSE <<block[1].address_, block[1].old_value_>> \o BlockBytes(Tail(block))

\* memcpy of bytes over a block of cells.
RECURSIVE BytesBlock(_)
BytesBlock(bytes) ==
  IF Len(bytes) < 2 THEN <<>>
  ELSE <<addrval(bytes[1], bytes[2])>> \o BytesBlock(Tail(Tail(bytes)))

\* zlib compress(): a lossless encoding of the byte string, here as runs
\* <<byte, length>> (the library is outside the repository).
RECURSIVE compress(_)
compress(bytes) ==
  IF Len(bytes) = 0 THEN <<>>
  ELSE LET rest == compress(Tail(bytes))
       IN IF Len(rest) > 0 /\ rest[1][1] = bytes[1]
          THEN <<(<<bytes[1], rest[1][2] + 1>>)>> \o Tail(rest)
          ELSE <<(<<bytes[1], 1>>)>> \o rest

\* zlib uncompress(): expands the runs.
RECURSIVE uncompress(_)
uncompress(packed) ==
  IF Len(packed) = 0 THEN <<>>
  ELSE [i \in 1..packed[1][2] |-> packed[1][1]] \o uncompress(Tail(packed))

\* TrailPacker::Pack of the two packers.
Pack(mode, block) ==
  IF mode = NO_COMPRESSION THEN BlockBytes(block)
  ELSE compress(BlockBytes(block))

\* TrailPacker::Unpack of the two packers: the whole block is overwritten.
Unpack(mode, packed_block) ==
  IF mode = NO_COMPRESSION THEN BytesBlock(packed_block)
  ELSE BytesBlock(uncompress(packed_block))

\* --------------------------------------------------------- CompressedTrail
\* CompressedTrail(block_size, compression_level).  blocks_ is the list of
\* packed blocks, head first; free_blocks_ is the number of recycled records.
NewCompressedTrail(block_size, mode) ==
  [ packer_ |-> mode,
    block_size_ |-> block_size,
    blocks_ |-> <<>>,
    free_blocks_ |-> 0,
    data_ |-> ZeroBlock(block_size),
    buffer_ |-> ZeroBlock(block_size),
    buffer_used_ |-> FALSE,
    current_ |-> 0,
    size_ |-> 0 ]

\* Back(): data_[current_ - 1] (0-based in the source, 1-based here).
Back(ct) == ct.data_[ct.current_]

size(ct) == ct.size_

\* NewTopBlock(): takes a record from the free list, or allocates one.
NewTopBlock(ct) ==
  [ct EXCEPT !.free_blocks_ = IF @ > 0 THEN @ - 1 ELSE 0,
             !.blocks_ = <<(<<>>)>> \o @]

\* FreeTopBlock(): clears the head block and moves it to the free list.
FreeTopBlock(ct) ==
  [ct EXCEPT !.blocks_ = Tail(@), !.free_blocks_ = @ + 1]

MutPushBackNoSwap(ct, addr_val) ==
  LET full == ct.current_ >= ct.block_size_
      c1 == IF ~full THEN ct
            ELSE IF ct.buffer_used_
            THEN LET nb == NewTopBlock(ct)
                 IN [nb EXCEPT !.blocks_[1] = Pack(ct.packer_, ct.buffer_),
                               !.current_ = 0]
            ELSE [ct EXCEPT !.data_ = ct.buffer_, !.buffer_ = ct.data_,
                            !.buffer_used_ = TRUE, !.current_ = 0]
  IN [c1 EXCEPT !.data_[c1.current_ + 1] = addr_val,
                !.current_ = @ + 1,
                !.size_ = @ + 1]

\* PushBack(addr_val).
PushBack(ct, addr_val) ==
  LET full == ct.current_ >= ct.block_size_
      c1 == IF ~full THEN ct
            ELSE IF ct.buffer_used_
            THEN LET nb == NewTopBlock(ct)
                 IN [nb EXCEPT !.blocks_[1] = Pack(ct.packer_, ct.buffer_),
                               !.data_ = ct.buffer_, !.buffer_ = ct.data_,
                               !.current_ = 0]
            ELSE [ct EXCEPT !.data_ = ct.buffer_, !.buffer_ = ct.data_,
                            !.buffer_used_ = TRUE, !.current_ = 0]
  IN [c1 EXCEPT !.data_[c1.current_ + 1] = addr_val,
                !.current_ = @ + 1,
                !.size_ = @ + 1]

\* PopBack() that takes the buffer back and still counts it as used.
MutPopBackKeepsBuffer(ct) ==
  IF ct.size_ > 0
  THEN LET c0 == [ct EXCEPT !.current_ = @ - 1]
           c1 == IF c0.current_ <= 0
                 THEN IF c0.buffer_used_
                      THEN [c0 EXCEPT !.data_ = c0.buffer_, !.buffer_ = c0.data_,
                                      !.current_ = c0.block_size_]
                      ELSE IF Len(c0.blocks_) > 0
                      THEN [FreeTopBlock(c0) EXCEPT
                              !.data_ = Unpack(c0.packer_, c0.blocks_[1]),
                              !.current_ = c0.block_size_]
                      ELSE c0
                 ELSE c0
       IN [c1 EXCEPT !.size_ = @ - 1]
  ELSE ct

\* PopBack().
PopBack(ct) ==
  IF ct.size_ > 0
  THEN LET c0 == [ct EXCEPT !.current_ = @ - 1]
           c1 == IF c0.current_ <= 0
                 THEN IF c0.buffer_used_
                      THEN [c0 EXCEPT !.data_ = c0.buffer_, !.buffer_ = c0.data_,
                                      !.current_ = c0.block_size_,
                                      !.buffer_used_ = FALSE]
                      ELSE IF Len(c0.blocks_) > 0
                      THEN [FreeTopBlock(c0) EXCEPT
                              !.data_ = Unpack(c0.packer_, c0.blocks_[1]),
                              !.current_ = c0.block_size_]
                      ELSE c0
                 ELSE c0
       IN [c1 EXCEPT !.size_ = @ - 1]
  ELSE ct

\* ------------------------------------------------------------------ TRAIL
\* Addresses of the reversible locations of a client, by the type of the
\* pointer handed to InternalSaveValue.  0 is NULL.
IntAddrs == {1} \cup {8 + i : i \in 1..MaxDepth}
Int64Addrs == {2}
UInt64Addrs == {3, 6, 7, 8}
PtrAddrs == {4}
BoolAddrs == {5}
Addrs == IntAddrs \cup Int64Addrs \cup UInt64Addrs \cup PtrAddrs \cup BoolAddrs

\* The locations a client saves and writes itself (the others are the
\* stamps of the demons).
ClientAddrs == {1, 2, 3, 4, 5}

\* The values a client writes.
Values == 0..1

\* struct Trail: four compressed trails and the plain vectors.
NewTrail(block_size, compression_level) ==
  [ rev_ints_ |-> NewCompressedTrail(block_size, compression_level),
    rev_int64s_ |-> NewCompressedTrail(block_size, compression_level),
    rev_uint64s_ |-> NewCompressedTrail(block_size, compression_level),
    rev_ptrs_ |-> NewCompressedTrail(block_size, compression_level),
    rev_boolvar_list_ |-> <<>>,
    rev_bools_ |-> <<>>,
    rev_bool_value_ |-> <<>>,
    rev_int_memory_ |-> <<>>,
    rev_int64_memory_ |-> <<>>,
    rev_object_memory_ |-> <<>>,
    rev_object_array_memory_ |-> <<>>,
    rev_memory_ |-> <<>>,
    rev_memory_array_ |-> <<>> ]

\* Marker types and the magic codes of the sentinels.
SIMPLE_MARKER == "SIMPLE_MARKER"
CHOICE_POINT == "CHOICE_POINT"
SENTINEL == "SENTINEL"
REVERSIBLE_ACTION == "REVERSIBLE_ACTION"
INITIAL_SEARCH_SENTINEL == 10000000
ROOT_NODE_SENTINEL == 20000000
SOLVER_CTOR_SENTINEL == 40000000

\* StateInfo(pinfo, iinfo, d, ld).
StateInfo(pinfo, iinfo, d, ld) ==
  [ptr_info |-> pinfo, int_info |-> iinfo, depth |-> d, left_depth |-> ld]

\* StateMarker(t, info): every index starts at 0.
StateMarker(t, info) ==
  [ type_ |-> t,
    rev_int_index_ |-> 0,
    rev_int64_index_ |-> 0,
    rev_uint64_index_ |-> 0,
    rev_ptr_index_ |-> 0,
    rev_boolvar_list_index_ |-> 0,
    rev_bools_index_ |-> 0,
    rev_int_memory_index_ |-> 0,
    rev_int64_memory_index_ |-> 0,
    rev_object_memory_index_ |-> 0,
    rev_object_array_memory_index_ |-> 0,
    rev_memory_index_ |-> 0,
    rev_memory_array_index_ |-> 0,
    info_ |-> info ]

\* The loop of BacktrackTo over one compressed trail: from curr down to
\* target, restore() the cell at the back, then PopBack().
RECURSIVE RestoreCells(_, _, _, _)
RestoreCells(ct, memory, curr, target) ==
  IF curr > target
  THEN LET cell == Back(ct)
       IN RestoreCells(PopBack(ct),
                       [memory EXCEPT ![cell.address_] = cell.old_value_],
                       curr - 1, target)
  ELSE [ct |-> ct, memory |-> memory]

\* The loop of BacktrackTo over rev_bools_ / rev_bool_value_.
RECURSIVE RestoreBools(_, _, _, _, _)
MutRestoreBoolsOldestFirst(bools, bool_value, memory, curr, target) ==
  IF curr >= target
  THEN RestoreBools(bools, bool_value,
                    [memory EXCEPT ![bools[target + 1]] = bool_value[target + 1]],
                    curr, target + 1)
  ELSE memory

RestoreBools(bools, bool_value, memory, curr, target) ==
  IF curr >= target
  THEN RestoreBools(bools, bool_value,
                    [memory EXCEPT ![bools[curr + 1]] = bool_value[curr + 1]],
                    curr - 1, target)
  ELSE memory

\* vector::resize(target) as BacktrackTo uses it: the vector only shrinks.
Resize(v, target) == SubSeq(v, 1, target)

MutBacktrackToKeepInts(tr, memory, m) ==
  LET r2 == RestoreCells(tr.rev_int64s_, memory,
                         size(tr.rev_int64s_), m.rev_int64_index_)
      r3 == RestoreCells(tr.rev_uint64s_, r2.memory,
                         size(tr.rev_uint64s_), m.rev_uint64_index_)
      r4 == RestoreCells(tr.rev_ptrs_, r3.memory,
                         size(tr.rev_ptrs_), m.rev_ptr_index_)
      m5 == RestoreBools(tr.rev_bools_, tr.rev_bool_value_, r4.memory,
                         Len(tr.rev_bools_) - 1, m.rev_bools_index_)
  IN [ trail |->
         [tr EXCEPT
            !.rev_int64s_ = r2.ct,
            !.rev_uint64s_ = r3.ct,
            !.rev_ptrs_ = r4.ct,
            !.rev_bools_ = Resize(@, m.rev_bools_index_),
            !.rev_bool_value_ = Resize(@, m.rev_bools_index_)],
       memory |-> m5 ]

\* Trail::BacktrackTo(m): returns the trail and the memory after the undo.
BacktrackTo(tr, memory, m) ==
  LET r1 == RestoreCells(tr.rev_ints_, memory,
                         size(tr.rev_ints_), m.rev_int_index_)
      r2 == RestoreCells(tr.rev_int64s_, r1.memory,
                         size(tr.rev_int64s_), m.rev_int64_index_)
      r3 == RestoreCells(tr.rev_uint64s_, r2.memory,
                         size(tr.rev_uint64s_), m.rev_uint64_index_)
      r4 == RestoreCells(tr.rev_ptrs_, r3.memory,
                         size(tr.rev_ptrs_), m.rev_ptr_index_)
      m5 == RestoreBools(tr.rev_bools_, tr.rev_bool_value_, r4.memory,
                         Len(tr.rev_bools_) - 1, m.rev_bools_index_)
  IN [ trail |->
         [tr EXCEPT
            !.rev_ints_ = r1.ct,
            !.rev_int64s_ = r2.ct,
            !.rev_uint64s_ = r3.ct,
            !.rev_ptrs_ = r4.ct,
            !.rev_boolvar_list_ = Resize(@, m.rev_boolvar_list_index_),
            !.rev_bools_ = Resize(@, m.rev_bools_index_),
            !.rev_bool_value_ = Resize(@, m.rev_bools_index_),
            !.rev_int_memory_ = Resize(@, m.rev_int_memory_index_),
            !.rev_int64_memory_ = Resize(@, m.rev_int64_memory_index_),
            !.rev_object_memory_ = Resize(@, m.rev_object_memory_index_),
            !.rev_object_array_memory_ =
               Resize(@, m.rev_object_array_memory_index_),
            !.rev_memory_ = Resize(@, m.rev_memory_index_),
            !.rev_memory_array_ = Resize(@, m.rev_memory_array_index_)],
       memory |-> m5 ]

\* ------------------------------------------------------------------ QUEUE
\* Solver::DemonPriority.
DELAYED_PRIORITY == "DELAYED_PRIORITY"
VAR_PRIORITY == "VAR_PRIORITY"
NORMAL_PRIORITY == "NORMAL_PRIORITY"
Priorities == {DELAYED_PRIORITY, VAR_PRIORITY, NORMAL_PRIORITY}

\* The demons of a model, and the address of the stamp_ of each (a uint64).
Demons == {1, 2, 3}
StampAddr(d) == 5 + d
DemonAddrs == {StampAddr(d) : d \in Demons}

\* FifoPriorityQueue(): cells_ are the Cell objects allocated so far, a Cell*
\* is an index in it and 0 is NULL.
FifoPriorityQueue ==
  [first_ |-> 0, last_ |-> 0, free_cells_ |-> 0, cells_ |-> <<>>]

\* FifoPriorityQueue::Empty().
Empty(q) == q.first_ = 0

\* FifoPriorityQueue::NextDemon(): the queue after the call and the demon
\* returned (0 is NULL).
NextDemon(q) ==
  IF q.first_ # 0
  THEN LET tmp_cell == q.first_
           first1 == q.cells_[tmp_cell].next
       IN [ q |-> [q EXCEPT !.first_ = first1,
                            !.last_ = IF first1 = 0 THEN 0 ELSE @,
                            !.cells_[tmp_cell].next = q.free_cells_,
                            !.free_cells_ = tmp_cell],
            demon |-> q.cells_[tmp_cell].demon ]
  ELSE [q |-> q, demon |-> 0]

\* The cell FifoPriorityQueue::Enqueue fills: one of the free list, or a new one.
FilledCell(q, d) ==
  IF q.free_cells_ # 0
  THEN [ cell |-> q.free_cells_,
         q |-> [q EXCEPT !.free_cells_ = q.cells_[q.free_cells_].next,
                         !.cells_[q.free_cells_] = [demon |-> d, next |-> 0]] ]
  ELSE [ cell |-> Len(q.cells_) + 1,
         q |-> [q EXCEPT !.cells_ = Append(@, [demon |-> d, next |-> 0])] ]

MutFifoEnqueueAtFront(q, d) ==
  LET f == FilledCell(q, d)
  IN IF f.q.first_ # 0
     THEN [f.q EXCEPT !.cells_[f.cell].next = f.q.first_, !.first_ = f.cell]
     ELSE [f.q EXCEPT !.first_ = f.cell, !.last_ = f.cell]

\* FifoPriorityQueue::Enqueue(d).
FifoEnqueue(q, d) ==
  LET f == FilledCell(q, d)
  IN IF f.q.last_ # 0
     THEN [f.q EXCEPT !.cells_[f.q.last_].next = f.cell, !.last_ = f.cell]
     ELSE [f.q EXCEPT !.first_ = f.cell, !.last_ = f.cell]

\* FifoPriorityQueue::AfterFailure().
FifoAfterFailure(q) ==
  IF q.first_ # 0
  THEN [q EXCEPT !.cells_[q.last_].next = q.free_cells_,
                 !.free_cells_ = q.first_,
                 !.first_ = 0,
                 !.last_ = 0]
  ELSE q

\* The demons of the cells from cell c on, following next.
RECURSIVE CellsFrom(_, _, _)
CellsFrom(q, c, fuel) ==
  IF c = 0 \/ fuel = 0 THEN <<>>
  ELSE <<q.cells_[c].demon>> \o CellsFrom(q, q.cells_[c].next, fuel - 1)

\* The pending demons of a queue, first to last.
Pending(q) == CellsFrom(q, q.first_, Len(q.cells_))

\* Queue(s).
NewQueue ==
  [ stamp_ |-> 1,
    freeze_level_ |-> 0,
    in_process_ |-> FALSE,
    clear_action_ |-> 0,
    in_add_ |-> FALSE,
    to_add_ |-> <<>>,
    containers_ |-> [p \in Priorities |-> FifoPriorityQueue] ]

\* Demon::stamp() and Demon::set_stamp(): stamp_ is a location of the memory.
stamp(S, d) == S.memory[StampAddr(d)]
set_stamp(S, d, v) == [S EXCEPT !.memory[StampAddr(d)] = v]

\* Demon::priority().
priority(S, d) == S.demons_[d]

MutEnqueueNoStamp(S, d) ==
  [set_stamp(S, d, S.queue_.stamp_) EXCEPT
     !.queue_.containers_[priority(S, d)] = FifoEnqueue(@, d)]

\* Whether Queue::Enqueue(demon) enqueues the demon.
Accepts(S, d) == stamp(S, d) < S.queue_.stamp_

MutEnqueueAlways(S, d) ==
  [set_stamp(S, d, S.queue_.stamp_) EXCEPT
     !.queue_.containers_[priority(S, d)] = FifoEnqueue(@, d)]

\* Queue::Enqueue(demon), up to the call of ProcessIfUnfrozen().
Enqueue(S, d) ==
  IF Accepts(S, d)
  THEN [set_stamp(S, d, S.queue_.stamp_) EXCEPT
          !.queue_.containers_[priority(S, d)] = FifoEnqueue(@, d)]
  ELSE S

\* Queue::ProcessOneDemon(prio), up to the call of demon->Run(): the solver
\* after the call and the demon to run (0: none).
ProcessOneDemon(S, prio) ==
  LET r == NextDemon(S.queue_.containers_[prio])
  IN IF r.demon # 0
     THEN [ S |-> [set_stamp(S, r.demon, S.queue_.stamp_ - 1) EXCEPT
                     !.queue_.containers_[prio] = r.q,
                     !.demon_runs_[prio] = @ + 1],
            demon |-> r.demon ]
     ELSE [S |-> S, demon |-> 0]

MutUnfreezeIncreasesStamp(S) ==
  [S EXCEPT !.queue_.freeze_level_ = @ - 1, !.queue_.stamp_ = @ + 1]

\* Queue::Freeze().
Freeze(S) ==
  [S EXCEPT !.queue_.freeze_level_ = @ + 1, !.queue_.stamp_ = @ + 1]

\* Queue::Unfreeze(), up to the call of ProcessIfUnfrozen().
Unfreeze(S) == [S EXCEPT !.queue_.freeze_level_ = @ - 1]

\* The frames of the call stack of the queue: Process() at a place of its
\* loops, ProcessNormalDemons() in its loop, and demon->Run() of a demon.
ProcessFrame(pc) == [kind |-> "Process", pc |-> pc, demon |-> 0]
NormalFrame == [kind |-> "ProcessNormalDemons", pc |-> "normal", demon |-> 0]
RunFrame(d) == [kind |-> "Run", pc |-> "run", demon |-> d]

\* Queue::ProcessIfUnfrozen() and the entry of Queue::Process(): the solver
\* and the call stack once Process() is entered, or left alone.
MutProcessWhenFrozen(S, stk) ==
  IF ~S.queue_.in_process_
  THEN [S |-> [S EXCEPT !.queue_.in_process_ = TRUE],
        stack |-> Append(stk, ProcessFrame("outer"))]
  ELSE [S |-> S, stack |-> stk]

ProcessIfUnfrozen(S, stk) ==
  IF S.queue_.freeze_level_ = 0 /\ ~S.queue_.in_process_
  THEN [S |-> [S EXCEPT !.queue_.in_process_ = TRUE],
        stack |-> Append(stk, ProcessFrame("outer"))]
  ELSE [S |-> S, stack |-> stk]

\* ----------------------------------------------------------------- SEARCH
\* Search(s): a regular search.
NewSearch0 ==
  [ marker_stack_ |-> <<>>,
    monitors_ |-> <<>>,
    solution_counter_ |-> 0,
    decision_builder_ |-> 0,
    created_by_solve_ |-> FALSE,
    search_depth_ |-> 0,
    left_search_depth_ |-> 0,
    should_restart_ |-> FALSE,
    should_finish_ |-> FALSE,
    sentinel_pushed_ |-> 0,
    jmpbuf_filled_ |-> FALSE ]

\* Search(s, 0): the dummy search, with both depths at -1.
DummySearch ==
  [NewSearch0 EXCEPT !.search_depth_ = -1, !.left_search_depth_ = -1]

\* Solver state_.
OUTSIDE_SEARCH == "OUTSIDE_SEARCH"
IN_ROOT_NODE == "IN_ROOT_NODE"
IN_SEARCH == "IN_SEARCH"
AT_SOLUTION == "AT_SOLUTION"
NO_MORE_SOLUTIONS == "NO_MORE_SOLUTIONS"
PROBLEM_INFEASIBLE == "PROBLEM_INFEASIBLE"

\* searches_.back(), as an index.
Back_(S) == Len(S.searches_)

ActiveSearch(S) == S.searches_[Len(S.searches_)]

MarkerStack(S) == ActiveSearch(S).marker_stack_

\* Queue::increase_stamp().
increase_stamp(S) ==
  [S EXCEPT !.queue_.stamp_ = @ + 1]

\* Solver::PushState(t, info).
PushState(S_, t, info) ==
  Only({(
    LET m0 == StateMarker(t, info)
        tr == S.trail_
        m == IF t # REVERSIBLE_ACTION \/ info.int_info = 0
             THEN [m0 EXCEPT
                     !.rev_int_index_ = size(tr.rev_ints_),
                     !.rev_int64_index_ = size(tr.rev_int64s_),
                     !.rev_uint64_index_ = size(tr.rev_uint64s_),
                     !.rev_ptr_index_ = size(tr.rev_ptrs_),
                     !.rev_boolvar_list_index_ = Len(tr.rev_boolvar_list_),
                     !.rev_bools_index_ = Len(tr.rev_bools_),
                     !.rev_int_memory_index_ = Len(tr.rev_int_memory_),
                     !.rev_int64_memory_index_ = Len(tr.rev_int64_memory_),
                     !.rev_object_memory_index_ = Len(tr.rev_object_memory_),
                     !.rev_object_array_memory_index_ =
                        Len(tr.rev_object_array_memory_),
                     !.rev_memory_index_ = Len(tr.rev_memory_),
                     !.rev_memory_array_index_ = Len(tr.rev_memory_array_)]
             ELSE m0
    IN increase_stamp(
         [S EXCEPT !.searches_[Back_(S)].marker_stack_ = Append(@, m)])
  ) : S \in {S_}})

\* The marker PopState(&info) pops: its type is the result, its info_ is *info.
TopMarker(S) == MarkerStack(S)[Len(MarkerStack(S))]

\* Solver::PopState(info), after trail_->BacktrackTo(m): the marker leaves
\* the stack and the stamp of the queue increases.
PopMarker(S_, undone) ==
  Only({(
    increase_stamp(
      [S EXCEPT !.trail_ = undone.trail,
                !.memory = undone.memory,
                !.searches_[Back_(S)].marker_stack_ = SubSeq(@, 1, Len(@) - 1)])
  ) : S \in {S_}})

\* Solver::PopState(info): the solver after the pop.
PopState(S_) ==
  Only({(
    PopMarker(S, IF TopMarker(S).type_ # REVERSIBLE_ACTION
                    \/ TopMarker(S).info_.int_info = 0
                 THEN BacktrackTo(S.trail_, S.memory, TopMarker(S))
                 ELSE [trail |-> S.trail_, memory |-> S.memory])
  ) : S \in {S_}})

\* Solver::PushSentinel(magic_code); ptr_info is the solver itself (1).
PushSentinel(S_, magic_code) ==
  Only({(
    IF magic_code # SOLVER_CTOR_SENTINEL
    THEN [PushState(S, SENTINEL, StateInfo(1, magic_code, 0, 0)) EXCEPT
            !.searches_[Back_(S)].sentinel_pushed_ = @ + 1]
    ELSE PushState(S, SENTINEL, StateInfo(1, magic_code, 0, 0))
  ) : S \in {S_}})

\* Solver::InternalSaveValue(valptr), by the type of the pointer.
InternalSaveValue(S_, valptr) ==
  Only({(
    LET cell == addrval(valptr, S.memory[valptr])
    IN CASE valptr \in IntAddrs ->
              [S EXCEPT !.trail_.rev_ints_ = PushBack(@, cell)]
         [] valptr \in Int64Addrs ->
              [S EXCEPT !.trail_.rev_int64s_ = PushBack(@, cell)]
         [] valptr \in UInt64Addrs ->
              [S EXCEPT !.trail_.rev_uint64s_ = PushBack(@, cell)]
         [] valptr \in PtrAddrs ->
              [S EXCEPT !.trail_.rev_ptrs_ = PushBack(@, cell)]
         [] valptr \in BoolAddrs ->
              [S EXCEPT !.trail_.rev_bools_ = Append(@, valptr),
                        !.trail_.rev_bool_value_ = Append(@, S.memory[valptr])]
  ) : S \in {S_}})

\* Solver::Solver(name, parameters) and Init(): the queue, the trail, the
\* dummy and the top-level search, and the constructor's sentinel.
NewSolver(params) ==
  PushSentinel(
    [ memory |-> [a \in Addrs |-> 0],
      queue_ |-> NewQueue,
      trail_ |-> NewTrail(params.trail_block_size, params.compress_trail),
      state_ |-> OUTSIDE_SEARCH,
      demons_ |-> [d \in Demons |-> NORMAL_PRIORITY],
      demon_runs_ |-> [p \in Priorities |-> 0],
      constraints_list_ |-> <<>>,
      additional_constraints_list_ |-> <<>>,
      additional_constraints_parent_list_ |-> <<>>,
      constraint_index_ |-> 0,
      additional_constraint_index_ |-> 0,
      abort_ |-> FALSE,
      branches_ |-> 0,
      fails_ |-> 0,
      decisions_ |-> 0,
      searches_ |-> <<DummySearch, NewSearch0>>,
      fail_stamp_ |-> 1 ],
    SOLVER_CTOR_SENTINEL)

\* The number of cells on the trail, all kinds together.
TrailCells(S) ==
  size(S.trail_.rev_ints_) + size(S.trail_.rev_int64s_)
  + size(S.trail_.rev_uint64s_) + size(S.trail_.rev_ptrs_)
  + Len(S.trail_.rev_bools_)

\* Solver::SolveDepth().
SolveDepth(S) == IF S.state_ = OUTSIDE_SEARCH THEN 0 ELSE Len(S.searches_) - 1

\* The actions that write their run down, and where they write it: the
\* digits of the cell in base 3 are the runs, the oldest first.
LoggingActions == {7, 8}
RunLogAddr == 3
ActionDigit(a) == a - 6

\* Action::Run(solver) of the action at address a: it counts its runs, and
\* a logging action writes its run down.
RunAction(S, a) ==
  [S EXCEPT !.memory[a] = @ + 1,
            !.memory[RunLogAddr] = IF a \in LoggingActions
                                   THEN 3 * @ + ActionDigit(a) ELSE @]

\* A failed CHECK or a LOG(FATAL): the process is aborted.
Abort(S) ==
  [S EXCEPT !.abort_ = TRUE]

\* The loop of Solver::BacktrackToSentinel(magic_code).
RECURSIVE BacktrackToSentinelLoop(_, _)

\* The loop of BacktrackToSentinel after PopState() has popped a sentinel
\* m: S is the solver with the sentinel counted out and the depths reset.
BacktrackToSentinelFound(S_, m, magic_code) ==
  Only({(
    IF m.info_.ptr_info # 1 \/ ActiveSearch(S).sentinel_pushed_ < 0
    THEN Abort(S)
    ELSE IF m.info_.int_info = magic_code
         THEN S
         ELSE BacktrackToSentinelLoop(S, magic_code)
  ) : S \in {S_}})

\* The loop of BacktrackToSentinel after PopState() has popped the marker m.
BacktrackToSentinelPopped(S_, m, magic_code) ==
  Only({(
    CASE m.type_ = SENTINEL ->
           BacktrackToSentinelFound(
             [S EXCEPT !.searches_[Back_(S)].sentinel_pushed_ = @ - 1,
                       !.searches_[Back_(S)].search_depth_ = 0,
                       !.searches_[Back_(S)].left_search_depth_ = 0],
             m, magic_code)
      [] m.type_ = REVERSIBLE_ACTION ->
           BacktrackToSentinelLoop(RunAction(S, m.info_.ptr_info), magic_code)
      [] OTHER -> BacktrackToSentinelLoop(S, magic_code)
  ) : S \in {S_}})

BacktrackToSentinelLoop(S_, magic_code) ==
  Only({(
    IF MarkerStack(S) = <<>>
    THEN Abort(S)
    ELSE BacktrackToSentinelPopped(PopState(S), TopMarker(S), magic_code)
  ) : S \in {S_}})

MutBacktrackToSentinelNoPop(S, magic_code) ==
  [S EXCEPT !.fail_stamp_ = @ + 1]

\* Solver::BacktrackToSentinel(magic_code).
BacktrackToSentinel(S_, magic_code) ==
  Only({(
    [ (IF ActiveSearch(S).sentinel_pushed_ = 0
       THEN S
       ELSE BacktrackToSentinelLoop(S, magic_code))
      EXCEPT !.fail_stamp_ = @ + 1 ]
  ) : S \in {S_}})

\* The loop of Solver::BacktrackOneLevel(fail_decision): the solver,
\* no_more_solutions and *fail_decision when the loop ends.
RECURSIVE BacktrackOneLevelLoop(_, _)

MutBacktrackOneLevelStopsAtClosed(S_, m, fd) ==
  Only({(
    CASE m.type_ = SENTINEL ->
           [ S |-> [S EXCEPT !.searches_[Back_(S)].sentinel_pushed_ = @ - 1],
             no_more_solutions |-> TRUE, fd |-> fd ]
      [] m.type_ = CHOICE_POINT ->
           [ S |-> [S EXCEPT
                      !.searches_[Back_(S)].search_depth_ = m.info_.depth,
                      !.searches_[Back_(S)].left_search_depth_ =
                         m.info_.left_depth],
             no_more_solutions |-> FALSE,
             fd |-> m.info_.ptr_info ]
      [] m.type_ = REVERSIBLE_ACTION ->
           BacktrackOneLevelLoop(RunAction(S, m.info_.ptr_info), fd)
      [] OTHER -> BacktrackOneLevelLoop(S, fd)
  ) : S \in {S_}})

\* The loop of BacktrackOneLevel after PopState() has popped the marker m.
BacktrackOneLevelPopped(S_, m, fd) ==
  Only({(
    CASE m.type_ = SENTINEL ->
           [ S |-> IF /\ m.info_.ptr_info = 1
                      /\ \/ /\ m.info_.int_info = ROOT_NODE_SENTINEL
                            /\ SolveDepth(S) = 1
                         \/ /\ m.info_.int_info = INITIAL_SEARCH_SENTINEL
                            /\ SolveDepth(S) > 1
                   THEN [S EXCEPT !.searches_[Back_(S)].sentinel_pushed_ = @ - 1]
                   ELSE Abort(S),
             no_more_solutions |-> TRUE, fd |-> fd ]
      [] m.type_ = CHOICE_POINT ->
           IF m.info_.int_info = 0
           THEN [ S |-> [S EXCEPT
                           !.searches_[Back_(S)].search_depth_ = m.info_.depth,
                           !.searches_[Back_(S)].left_search_depth_ =
                              m.info_.left_depth],
                  no_more_solutions |-> FALSE,
                  fd |-> m.info_.ptr_info ]
           ELSE BacktrackOneLevelLoop(S, fd)
      [] m.type_ = REVERSIBLE_ACTION ->
           BacktrackOneLevelLoop(RunAction(S, m.info_.ptr_info), fd)
      [] OTHER -> BacktrackOneLevelLoop(S, fd)
  ) : S \in {S_}})

BacktrackOneLevelLoop(S_, fd) ==
  Only({(
    IF MarkerStack(S) = <<>>
    THEN [S |-> Abort(S), no_more_solutions |-> TRUE, fd |-> fd]
    ELSE BacktrackOneLevelPopped(PopState(S), TopMarker(S), fd)
  ) : S \in {S_}})

\* Solver::BacktrackOneLevel(fail_decision).
BacktrackOneLevel(S, fd) ==
  [BacktrackOneLevelLoop(S, fd) EXCEPT !.S.fail_stamp_ = @ + 1]

MutAfterFailureKeepsAction(S) ==
  [ (IF S.queue_.clear_action_ # 0
     THEN RunAction(S, S.queue_.clear_action_)
     ELSE S)
    EXCEPT !.queue_.containers_ = [p \in Priorities |-> FifoAfterFailure(@[p])],
           !.queue_.freeze_level_ = 0,
           !.queue_.in_process_ = FALSE,
           !.queue_.in_add_ = FALSE,
           !.queue_.to_add_ = <<>> ]

\* Queue::AfterFailure().
AfterFailure(S_) ==
  Only({(
    [ (IF S.queue_.clear_action_ # 0
       THEN RunAction(S, S.queue_.clear_action_)
       ELSE S)
      EXCEPT !.queue_.containers_ = [p \in Priorities |-> FifoAfterFailure(@[p])],
             !.queue_.clear_action_ = 0,
             !.queue_.freeze_level_ = 0,
             !.queue_.in_process_ = FALSE,
             !.queue_.in_add_ = FALSE,
             !.queue_.to_add_ = <<>> ]
  ) : S \in {S_}})

\* Solver::AddConstraint(c); in search the constraint waits in to_add_ for
\* Queue::ProcessConstraints().
AddConstraint(S_, c) ==
  Only({(
    IF S.state_ = IN_SEARCH
    THEN [S EXCEPT !.queue_.to_add_ = Append(@, c)]
    ELSE IF S.state_ = IN_ROOT_NODE
         THEN [S EXCEPT
                 !.additional_constraints_list_ = Append(@, c),
                 !.additional_constraints_parent_list_ =
                    Append(@, IF S.constraint_index_ = Len(S.constraints_list_)
                              THEN S.additional_constraints_parent_list_[
                                     S.additional_constraint_index_ + 1]
                              ELSE S.constraint_index_)]
         ELSE [S EXCEPT !.constraints_list_ = Append(@, c)]
  ) : S \in {S_}})

\* MakeFalseConstraint(explanation).
FalseConstraint == [var |-> 0, value |-> 0]

\* The false constraint: its initial propagation calls Fail() whenever it is
\* posted.
AlwaysFails(c) == c = FalseConstraint

MutJumpBackPostsNothing(S_) ==
  Only({(
    IF ActiveSearch(S).jmpbuf_filled_
    THEN [S EXCEPT !.searches_[Back_(S)].jmpbuf_filled_ = FALSE]
    ELSE S
  ) : S \in {S_}})

\* Search::JumpBack(): with the buffer armed the control goes to CP_ON_FAIL.
JumpBack(S_) ==
  Only({(
    IF ActiveSearch(S).jmpbuf_filled_
    THEN [S EXCEPT !.searches_[Back_(S)].jmpbuf_filled_ = FALSE]
    ELSE AddConstraint(S, FalseConstraint)
  ) : S \in {S_}})

\* Solver::Fail().
Fail(S) ==
  JumpBack([S EXCEPT !.fails_ = @ + 1])

\* Search::CheckFail(): whether it calls Fail().
CheckFail(S) ==
  ActiveSearch(S).should_finish_ \/ ActiveSearch(S).should_restart_

\* CP_TRY(search): CHECK(!jmpbuf_filled_), then the buffer is armed.
CP_TRY(S_) ==
  Only({(
    IF ActiveSearch(S).jmpbuf_filled_
    THEN Abort(S)
    ELSE [S EXCEPT !.searches_[Back_(S)].jmpbuf_filled_ = TRUE]
  ) : S \in {S_}})

\* Search::ClearBuffer() that checks the buffer and leaves it armed.
MutClearBufferLeavesArmed(S_) ==
  Only({(
    IF ~ActiveSearch(S).jmpbuf_filled_ THEN Abort(S) ELSE S
  ) : S \in {S_}})

\* Search::ClearBuffer().
ClearBuffer(S_) ==
  Only({(
    IF ~ActiveSearch(S).jmpbuf_filled_
    THEN Abort(S)
    ELSE [S EXCEPT !.searches_[Back_(S)].jmpbuf_filled_ = FALSE]
  ) : S \in {S_}})

\* ------------------------------------------ the model and its decision tree
\* x, the variable of the constraints of the model (0: not bound).
XAddr == 2
\* The variable decision i assigns: 1 by Apply (left), 2 by Refute (right).
VarAddr(i) == 8 + i

\* IntVar::SetValue: the location is saved, then written.
SetValue(S, a, v) ==
  [InternalSaveValue(S, a) EXCEPT !.memory[a] = v]

\* The constraint x = v.
Equality(v) == [var |-> XAddr, value |-> v]

\* A constraint whose Post() calls Solver::AddConstraint(c) and does nothing
\* else.
Adder(c) == [adds |-> c]
AddsConstraint(c) == "adds" \in DOMAIN c

\* Constraint::PostAndPropagate() of x = v: the solver after it and whether
\* it has called Fail(), which it does between FreezeQueue and UnfreezeQueue.
\* No demon is pending: UnfreezeQueue() finds the queues empty.
PostAndPropagate(S_, c) ==
  Only({(
    IF AddsConstraint(c)
    THEN [S |-> Unfreeze(AddConstraint(Freeze(S), c.adds)), failed |-> FALSE]
    ELSE IF AlwaysFails(c)
    THEN [S |-> Freeze(S), failed |-> TRUE]
    ELSE IF S.memory[c.var] = 0
    THEN [S |-> Unfreeze(SetValue(Freeze(S), c.var, c.value)), failed |-> FALSE]
    ELSE IF S.memory[c.var] = c.value
         THEN [S |-> Unfreeze(Freeze(S)), failed |-> FALSE]
         ELSE [S |-> Freeze(S), failed |-> TRUE]
  ) : S \in {S_}})

\* Solver::ProcessConstraints(): the loop on constraints_list_ from index i.
RECURSIVE PostFrom(_, _)

\* The loop on constraints_list_ after constraint i: r is what its
\* PostAndPropagate() has done.
PostNext(r_, i) ==
  Only({(
    IF r.failed THEN r ELSE PostFrom(r.S, i + 1)
  ) : r \in {r_}})

PostFrom(S_, i) ==
  Only({(
    IF i >= Len(S.constraints_list_)
    THEN [S |-> [S EXCEPT !.constraint_index_ = i], failed |-> FALSE]
    ELSE PostNext(PostAndPropagate([S EXCEPT !.constraint_index_ = i],
                                   S.constraints_list_[i + 1]), i)
  ) : S \in {S_}})

\* Solver::ProcessConstraints(): the loop on additional_constraints_list_,
\* whose index is a local of the loop.
RECURSIVE PostAdditionalFrom(_, _)

PostAdditionalNext(r_, i) ==
  Only({(
    IF r.failed THEN r ELSE PostAdditionalFrom(r.S, i + 1)
  ) : r \in {r_}})

PostAdditionalFrom(S_, i) ==
  Only({(
    IF i >= Len(S.additional_constraints_list_)
    THEN [S |-> S, failed |-> FALSE]
    ELSE PostAdditionalNext(
           PostAndPropagate(S, S.additional_constraints_list_[i + 1]), i)
  ) : S \in {S_}})

\* Solver::ProcessConstraints(): the solver after it and whether a
\* constraint has called Fail(); the second loop starts at index 0.
ProcessConstraints(S) ==
  PostAdditionalNext(
    PostFrom([S EXCEPT !.additional_constraints_list_ = <<>>,
                       !.additional_constraints_parent_list_ = <<>>], 0),
    -1)

\* The nodes of the tree of the DecisionBuilder: the branches taken from the
\* root, 1 for a left branch and 2 for a right branch.
Paths(n) == [1..n -> {1, 2}]
Nodes == UNION {Paths(n) : n \in 1..MaxDepth}
Leaves == Paths(MaxDepth)

\* The node the search is at: the values of the decision variables.
RECURSIVE PathFrom(_, _)
PathFrom(S_, i) ==
  Only({(
    IF i > MaxDepth THEN <<>>
    ELSE IF S.memory[VarAddr(i)] = 0 THEN <<>>
         ELSE <<S.memory[VarAddr(i)]>> \o PathFrom(S, i + 1)
  ) : S \in {S_}})
CurrentPath(S) == PathFrom(S, 1)

\* DecisionBuilder::Next(solver): the decision on the first variable not
\* assigned, or NULL (0) when all are assigned.
Next(S) ==
  IF Len(CurrentPath(S)) < MaxDepth THEN Len(CurrentPath(S)) + 1 ELSE 0

\* The propagation of a decision, once its variable is assigned: it fails
\* at a node the model forbids, before UnfreezeQueue.
Propagate(S_) ==
  Only({(
    IF CurrentPath(S) \in parameters.nogood
    THEN [S |-> S, failed |-> TRUE]
    ELSE [S |-> Unfreeze(S), failed |-> FALSE]
  ) : S \in {S_}})

MutBranchAlwaysLeft(S, d, v) ==
  Propagate(SetValue(Freeze(S), VarAddr(d), 1))

\* Decision::Apply (v = 1) and Decision::Refute (v = 2) of decision d: the
\* variable is assigned between FreezeQueue and UnfreezeQueue.
Branch(S, d, v) ==
  Propagate(SetValue(Freeze(S), VarAddr(d), v))

\* The monitors, in the order NewSearch() installs them: the propagation
\* monitor, then the monitors of the client.  The second monitor of the
\* client keeps the defaults of SearchMonitor.
PropagationMonitor == 0
ClientMonitor == 1
SecondMonitor == 2

\* SearchMonitor::AcceptSolution() of monitor m: the solver after it and its
\* result.  The monitor of the client rejects the leaves of reject and
\* calls FinishCurrentSearch() at the leaves of finish.
MonitorAcceptSolution(S_, m) ==
  Only({(
    IF m = ClientMonitor
    THEN [ S |-> IF CurrentPath(S) \in parameters.finish
                 THEN [S EXCEPT !.searches_[Back_(S)].should_finish_ = TRUE]
                 ELSE S,
           ok |-> CurrentPath(S) \notin parameters.reject ]
    ELSE [S |-> S, ok |-> TRUE]
  ) : S \in {S_}})

\* A call of a monitor as the monitor sees it: its result and the solution
\* counter of the search during the call.
MonitorCall(S, m, result) ==
  [m |-> m, result |-> result, solutions |-> ActiveSearch(S).solution_counter_]

\* Search::AcceptSolution(): every monitor from index i on is called.
RECURSIVE AcceptSolutionFrom(_, _, _, _)

MutAcceptSolutionReturnsAtFalse(r_, i, valid, calls) ==
  Only({(
    IF r.ok
    THEN AcceptSolutionFrom(r.S, i + 1, valid,
                            Append(calls, MonitorCall(r.S, ActiveSearch(r.S).monitors_[i], r.ok)))
    ELSE [ S |-> r.S, ok |-> FALSE,
           calls |-> Append(calls, MonitorCall(r.S, ActiveSearch(r.S).monitors_[i], r.ok)) ]
  ) : r \in {r_}})

\* Search::AcceptSolution() after monitor i: r is what the monitor has done.
AcceptSolutionNext(r_, i, valid, calls) ==
  Only({(
    AcceptSolutionFrom(r.S, i + 1, valid /\ r.ok,
                       Append(calls, MonitorCall(r.S, ActiveSearch(r.S).monitors_[i], r.ok)))
  ) : r \in {r_}})

AcceptSolutionFrom(S_, i, valid, calls) ==
  Only({(
    IF i > Len(ActiveSearch(S).monitors_)
    THEN [S |-> S, ok |-> valid, calls |-> calls]
    ELSE AcceptSolutionNext(
           MonitorAcceptSolution(S, ActiveSearch(S).monitors_[i]), i, valid,
           calls)
  ) : S \in {S_}})

\* Search::AcceptSolution(): the solver after it, its result, and the calls
\* of the monitors it has made.
AcceptSolution(S) == AcceptSolutionFrom(S, 1, TRUE, <<>>)

\* SearchMonitor::AtSolution() of monitor m.
MonitorAtSolution(S, m) == m = ClientMonitor /\ parameters.at_solution

\* Search::AtSolution(): every monitor from index i on is called.
RECURSIVE AtSolutionFrom(_, _, _, _)

MutAtSolutionReturnsAtTrue(S_, i, should_continue, calls) ==
  Only({(
    IF i > Len(ActiveSearch(S).monitors_) \/ should_continue
    THEN [go |-> should_continue, calls |-> calls]
    ELSE AtSolutionFrom(
           S, i + 1,
           should_continue \/ MonitorAtSolution(S, ActiveSearch(S).monitors_[i]),
           Append(calls,
                  MonitorCall(S, ActiveSearch(S).monitors_[i],
                              MonitorAtSolution(S, ActiveSearch(S).monitors_[i]))))
  ) : S \in {S_}})

AtSolutionFrom(S_, i, should_continue, calls) ==
  Only({(
    IF i > Len(ActiveSearch(S).monitors_)
    THEN [go |-> should_continue, calls |-> calls]
    ELSE AtSolutionFrom(
           S, i + 1,
           should_continue \/ MonitorAtSolution(S, ActiveSearch(S).monitors_[i]),
           Append(calls,
                  MonitorCall(S, ActiveSearch(S).monitors_[i],
                              MonitorAtSolution(S, ActiveSearch(S).monitors_[i]))))
  ) : S \in {S_}})

\* Search::AtSolution(): its result and the calls of the monitors it has
\* made.
AtSolution(S) == AtSolutionFrom(S, 1, FALSE, <<>>)

MutCurrentlyNested(S) == Len(S.searches_) > 2

\* Solver::CurrentlyInSolve().
CurrentlyInSolve(S) == ActiveSearch(S).created_by_solve_

\* Search::Clear().
Clear(S_) ==
  Only({(
    [S EXCEPT !.searches_[Back_(S)].monitors_ = <<>>,
              !.searches_[Back_(S)].search_depth_ = 0,
              !.searches_[Back_(S)].left_search_depth_ = 0]
  ) : S \in {S_}})

MutEndSearchKeepsState(S) ==
  Clear(BacktrackToSentinel(S, INITIAL_SEARCH_SENTINEL))

\* Solver::EndSearch().
EndSearch(S_) ==
  Only({(
    IF Len(S.searches_) # 2
    THEN Abort(S)
    ELSE [Clear(BacktrackToSentinel(S, INITIAL_SEARCH_SENTINEL)) EXCEPT
            !.state_ = OUTSIDE_SEARCH]
  ) : S \in {S_}})

MutNewSearchChecksLate(S_) ==
  Only({(
    IF S.state_ = IN_SEARCH \/ S.state_ = IN_ROOT_NODE
    THEN Abort([BacktrackToSentinel(
                  [S EXCEPT !.searches_[Back_(S)].created_by_solve_ = FALSE],
                  INITIAL_SEARCH_SENTINEL)
                EXCEPT !.state_ = OUTSIDE_SEARCH])
    ELSE [PushSentinel(
            [BacktrackToSentinel(
               [S EXCEPT !.searches_[Back_(S)].created_by_solve_ = FALSE],
               INITIAL_SEARCH_SENTINEL)
             EXCEPT
               !.state_ = OUTSIDE_SEARCH,
               !.searches_[Back_(S)].monitors_ =
                  @ \o <<PropagationMonitor, ClientMonitor, SecondMonitor>>,
               !.searches_[Back_(S)].solution_counter_ = 0],
            INITIAL_SEARCH_SENTINEL)
          EXCEPT !.searches_[Back_(S)].decision_builder_ = 1]
  ) : S \in {S_}})

\* Solver::NewSearch(db, monitors, size) with the decision builder (1) and
\* the monitor of the client; LOG(FATAL) in search.
NewSearch(S_) ==
  Only({(
    IF S.state_ = IN_SEARCH \/ S.state_ = IN_ROOT_NODE
    THEN Abort(S)
    ELSE [PushSentinel(
            [BacktrackToSentinel(
               [S EXCEPT !.searches_[Back_(S)].created_by_solve_ = FALSE],
               INITIAL_SEARCH_SENTINEL)
             EXCEPT
               !.state_ = OUTSIDE_SEARCH,
               !.searches_[Back_(S)].monitors_ =
                  @ \o <<PropagationMonitor, ClientMonitor, SecondMonitor>>,
               !.searches_[Back_(S)].solution_counter_ = 0],
            INITIAL_SEARCH_SENTINEL)
          EXCEPT !.searches_[Back_(S)].decision_builder_ = 1]
  ) : S \in {S_}})

\* AfterDecision and the move, where RightMove() counts a left branch too.
MutRightMovesLeft(r_, apply) ==
  Only({(
    IF r.failed \/ CheckFail(r.S)
    THEN [S |-> r.S, failed |-> TRUE, ran |-> TRUE]
    ELSE [ S |-> [r.S EXCEPT
                    !.searches_[Back_(r.S)].search_depth_ = @ + 1,
                    !.searches_[Back_(r.S)].left_search_depth_ = @ + 1],
           failed |-> FALSE, ran |-> TRUE ]
  ) : r \in {r_}})

\* AfterDecision(d, apply) and LeftMove() or RightMove(), after d->Apply or
\* d->Refute has run: r is what the branch has done.
AfterDecision(r_, apply) ==
  Only({(
    IF r.failed \/ CheckFail(r.S)
    THEN [S |-> r.S, failed |-> TRUE, ran |-> TRUE]
    ELSE [ S |-> [r.S EXCEPT
                    !.searches_[Back_(r.S)].search_depth_ = @ + 1,
                    !.searches_[Back_(r.S)].left_search_depth_ =
                       IF apply THEN @ + 1 ELSE @],
           failed |-> FALSE, ran |-> TRUE ]
  ) : r \in {r_}})

\* RefuteDecision(fd) or ApplyDecision(d) and the branch, once the choice
\* point is pushed.  failed: Fail() is called; ran: the branch was run.
RunBranch(S_, d, v) ==
  Only({(
    IF CheckFail(S)
    THEN [S |-> S, failed |-> TRUE, ran |-> FALSE]
    ELSE AfterDecision(Branch([S EXCEPT !.branches_ = @ + 1], d, v), v = 1)
  ) : S \in {S_}})

\* The right branch of NextSolution(): the choice point, RefuteDecision,
\* fd->Refute, AfterDecision, RightMove.
RefuteBranch(S_, fd) ==
  Only({(
    RunBranch(PushState(S, CHOICE_POINT,
                        StateInfo(fd, 1, ActiveSearch(S).search_depth_,
                                  ActiveSearch(S).left_search_depth_)),
              fd, 2)
  ) : S \in {S_}})

\* The left branch of NextSolution() (NO_CHANGE): the choice point,
\* ApplyDecision, d->Apply, AfterDecision, LeftMove.
ApplyBranch(S_, d) ==
  Only({(
    RunBranch(PushState([S EXCEPT !.decisions_ = @ + 1], CHOICE_POINT,
                        StateInfo(d, 0, ActiveSearch(S).search_depth_,
                                  ActiveSearch(S).left_search_depth_)),
              d, 1)
  ) : S \in {S_}})

\* if (BacktrackOneLevel(&fd)) finish = true: b is what BacktrackOneLevel
\* has done.
Backtracked(b_) ==
  Only({(
    [S |-> b.S, fd |-> b.fd, finish |-> b.no_more_solutions,
     restarted |-> <<>>]
  ) : b \in {b_}})

\* Search::RestartSearch(): the monitors on which RestartSearch() is called,
\* in the order of the calls.
SearchRestartSearch(S) == ActiveSearch(S).monitors_

MutHandlerRestartsInPlace(S_, fd, code) ==
  Only({(
    IF ActiveSearch(S).should_finish_
    THEN [ S |-> [BacktrackToSentinel(S, code) EXCEPT
                    !.searches_[Back_(S)].should_finish_ = FALSE,
                    !.searches_[Back_(S)].should_restart_ = FALSE],
           fd |-> 0, finish |-> TRUE, restarted |-> <<>> ]
    ELSE IF ActiveSearch(S).should_restart_
         THEN [ S |-> [S EXCEPT
                         !.searches_[Back_(S)].should_finish_ = FALSE,
                         !.searches_[Back_(S)].should_restart_ = FALSE],
                fd |-> 0, finish |-> FALSE,
                restarted |-> SearchRestartSearch(S) ]
         ELSE Backtracked(BacktrackOneLevel(S, fd))
  ) : S \in {S_}})

\* CP_ON_FAIL of the loop of NextSolution() after queue_->AfterFailure():
\* the solver, fd and finish after the handler, and the monitors on which
\* the handler has called RestartSearch().
Handler(S_, fd, code) ==
  Only({(
    IF ActiveSearch(S).should_finish_
    THEN [ S |-> [BacktrackToSentinel(S, code) EXCEPT
                    !.searches_[Back_(S)].should_finish_ = FALSE,
                    !.searches_[Back_(S)].should_restart_ = FALSE],
           fd |-> 0, finish |-> TRUE, restarted |-> <<>> ]
    ELSE IF ActiveSearch(S).should_restart_
         THEN [ S |-> PushSentinel(
                        [BacktrackToSentinel(S, code) EXCEPT
                           !.searches_[Back_(S)].should_finish_ = FALSE,
                           !.searches_[Back_(S)].should_restart_ = FALSE],
                        code),
                fd |-> 0, finish |-> FALSE,
                restarted |-> SearchRestartSearch(S) ]
         ELSE Backtracked(BacktrackOneLevel(S, fd))
  ) : S \in {S_}})

MutOnFailFinishes(S, fd, top_level) ==
  [ S |-> [BacktrackToSentinel(AfterFailure(S),
                               IF top_level THEN ROOT_NODE_SENTINEL
                               ELSE INITIAL_SEARCH_SENTINEL)
             EXCEPT !.searches_[Back_(S)].should_finish_ = FALSE,
                    !.searches_[Back_(S)].should_restart_ = FALSE],
    fd |-> 0, finish |-> TRUE, restarted |-> <<>> ]

\* CP_ON_FAIL of the loop of NextSolution(): the solver, fd and finish after
\* the handler (result is false when finish is set).
OnFail(S, fd, top_level) ==
  Handler(AfterFailure(S), fd,
          IF top_level THEN ROOT_NODE_SENTINEL ELSE INITIAL_SEARCH_SENTINEL)

\* ------------------------------------ specification: trail and state markers
\* A client outside search: PushState(), save-then-write, PopState().
NoLast == [op |-> "none", expect |-> <<>>, undone |-> 0, restored |-> {}]

\* The SolverParameters a solver is built with: the smallest block, so that
\* the blocks of the trail fill up, are swapped and are packed after a few
\* saves, and both compression modes.
SolverParameters ==
  [trail_block_size : {1}, compress_trail : TrailCompression]

TrailInit ==
  /\ parameters \in SolverParameters
  /\ solver = NewSolver(parameters)
  /\ g_snap = <<>>
  /\ g_last = NoLast
  /\ cts = <<>>
  /\ ref = <<>>
  /\ stack = <<>>
  /\ g_window = <<>>
  /\ g_order = <<>>
  /\ g_search = <<>>

\* Solver::PushState(): a simple marker.
TPushState ==
  /\ solver.queue_.stamp_ < MaxStamp
  /\ solver' = PushState(solver, SIMPLE_MARKER, StateInfo(0, 0, 0, 0))
  /\ g_snap' = Append(g_snap, solver.memory)
  /\ g_last' = NoLast
  /\ UNCHANGED <<g_search, parameters, cts, ref, stack, g_window, g_order>>

\* save_*(addr) then the write of a value at addr (the value may be the
\* one already there: a save alone).
TSaveAndWrite ==
  \E a \in ClientAddrs, v \in Values :
    /\ TrailCells(solver) < MaxSaves
    /\ solver' = [InternalSaveValue(solver, a) EXCEPT !.memory[a] = v]
    /\ g_last' = NoLast
    /\ UNCHANGED <<g_search, parameters, cts, ref, g_snap, stack, g_window, g_order>>

\* Solver::PopState(): pops a simple marker (CHECK_EQ(SIMPLE_MARKER, t)).
TPopState ==
  /\ TopMarker(solver).type_ = SIMPLE_MARKER
  /\ solver' = PopState(solver)
  /\ g_snap' = SubSeq(g_snap, 1, Len(g_snap) - 1)
  /\ g_last' = [op |-> "PopState", expect |-> g_snap[Len(g_snap)],
                undone |-> TrailCells(solver) - TrailCells(solver'),
                restored |-> {a \in Addrs :
                                solver.memory[a] # solver'.memory[a]}]
  /\ UNCHANGED <<g_search, parameters, cts, ref, stack, g_window, g_order>>

TrailNext == TPushState \/ TSaveAndWrite \/ TPopState

SpecTrail == TrailInit /\ [][TrailNext]_vars

\* C1: after the PopState that matches a PushState, every location holds
\* the value it had when the PushState was executed (every write between
\* the two was preceded by the save of its location).
TrailRoundTrip ==
  g_last.op = "PopState" => solver.memory = g_last.expect

\* A PopState has undone two cells and changed two locations back.
TrailRoundTripWitness ==
  /\ g_last.op = "PopState"
  /\ g_last.undone >= 2
  /\ Cardinality(g_last.restored) >= 2

\* ------------------------------------- specification: one compressed trail
\* The cells a client pushes: two addresses, two old values.
Cells == {addrval(a, v) : a \in 1..2, v \in 0..1}

CTInit ==
  /\ parameters \in [trail_block_size : 1..MaxBlockSize,
                     compress_trail : {NO_COMPRESSION}]
  /\ cts = [m \in TrailCompression |->
              NewCompressedTrail(parameters.trail_block_size, m)]
  /\ ref = <<>>
  /\ solver = <<>>
  /\ g_snap = <<>>
  /\ g_last = <<>>
  /\ stack = <<>>
  /\ g_window = <<>>
  /\ g_order = <<>>
  /\ g_search = <<>>

CTPushBack ==
  \E c \in Cells :
    /\ Len(ref) < MaxTrailLen
    /\ cts' = [m \in TrailCompression |-> PushBack(cts[m], c)]
    /\ ref' = Append(ref, c)
    /\ UNCHANGED <<g_search, parameters, solver, g_snap, g_last, stack, g_window, g_order>>

CTPopBack ==
  /\ cts' = [m \in TrailCompression |-> PopBack(cts[m])]
  /\ ref' = IF Len(ref) > 0 THEN SubSeq(ref, 1, Len(ref) - 1) ELSE ref
  /\ UNCHANGED <<g_search, parameters, solver, g_snap, g_last, stack, g_window, g_order>>

CTNext == CTPushBack \/ CTPopBack

SpecCT == CTInit /\ [][CTNext]_vars

\* C2: under every compression mode, size() is the length of the plain
\* sequence of pushed cells and, when it is not empty, Back() is its top.
CompressedTrailEquivalence ==
  \A m \in TrailCompression :
    /\ size(cts[m]) = Len(ref)
    /\ Len(ref) > 0 => Back(cts[m]) = ref[Len(ref)]

\* A block has been packed, unpacked again, and the trail is not empty.
CompressedTrailWitness ==
  /\ Len(ref) > 0
  /\ \A m \in TrailCompression :
       cts[m].free_blocks_ > 0 /\ Len(cts[m].blocks_) > 0

\* ------------------------------------------- specification: propagation queue
\* The callers of the queue are the code outside any demon (the call stack is
\* empty) and the demon whose Run() is on top of the call stack.  Both call
\* Solver::Enqueue, FreezeQueue, UnfreezeQueue and ProcessDemonsOnQueue.
NoDispatch ==
  [ op |-> "none", demon |-> 0, prio |-> NORMAL_PRIORITY, oldest |-> 0,
    waiting |-> 0, normal_empty |-> TRUE, var_empty |-> TRUE ]

\* The priorities of the demons of a model: a NORMAL demon, a DELAYED demon
\* and a demon of any priority.
DemonPriorities ==
  {f \in [Demons -> Priorities] :
     f[1] = NORMAL_PRIORITY /\ f[3] = DELAYED_PRIORITY}

\* The demons dispatched so far and the demons pending.
TotalRuns(S) ==
  S.demon_runs_[DELAYED_PRIORITY] + S.demon_runs_[VAR_PRIORITY]
  + S.demon_runs_[NORMAL_PRIORITY]
PendingCount(S, d) ==
  Cardinality({<<p, i>> \in Priorities \X (1..Cardinality(Demons) + MaxDemonRuns) :
                 /\ i <= Len(Pending(S.queue_.containers_[p]))
                 /\ Pending(S.queue_.containers_[p])[i] = d})
TotalPending(S) ==
  Len(Pending(S.queue_.containers_[DELAYED_PRIORITY]))
  + Len(Pending(S.queue_.containers_[VAR_PRIORITY]))
  + Len(Pending(S.queue_.containers_[NORMAL_PRIORITY]))

\* The history of the demons when the stamp of the queue has just increased:
\* no dispatch and no accepted Enqueue yet.
NoWindow == [d \in Demons |-> [runs |-> 0, accepted |-> 0]]

QueueInit ==
  /\ parameters \in [trail_block_size : {1}, compress_trail : {NO_COMPRESSION}]
  /\ \E f \in DemonPriorities :
       solver = [NewSolver(parameters) EXCEPT !.demons_ = f]
  /\ stack = <<>>
  /\ g_last = NoDispatch
  /\ g_window = NoWindow
  /\ g_order = [p \in Priorities |-> <<>>]
  /\ g_search = <<>>
  /\ cts = <<>>
  /\ ref = <<>>
  /\ g_snap = <<>>

Top(stk) == stk[Len(stk)]
Pop(stk) == SubSeq(stk, 1, Len(stk) - 1)
SetPc(stk, pc) == [stk EXCEPT ![Len(stk)].pc = pc]

\* The code outside any demon, or the running demon, is executing.
InCaller == IF stack = <<>> THEN TRUE ELSE Top(stack).kind \in {"Run", "Post"}

\* Solver::Enqueue(d) by the caller.
QEnqueue ==
  \E d \in Demons :
    /\ InCaller
    /\ TotalRuns(solver) + TotalPending(solver) < MaxDemonRuns
    /\ LET accepted == Enqueue(solver, d).queue_.containers_
                           # solver.queue_.containers_
           r == IF Accepts(solver, d)
                THEN ProcessIfUnfrozen(Enqueue(solver, d), stack)
                ELSE [S |-> Enqueue(solver, d), stack |-> stack]
       IN /\ solver' = r.S
          /\ stack' = r.stack
          /\ g_order' = IF accepted
                        THEN [g_order EXCEPT ![priority(solver, d)] = Append(@, d)]
                        ELSE g_order
          /\ g_window' = IF accepted
                         THEN [g_window EXCEPT ![d].accepted = @ + 1]
                         ELSE g_window
    /\ g_last' = NoDispatch
    /\ UNCHANGED <<g_search, parameters, cts, ref, g_snap>>

\* Solver::FreezeQueue() by the caller: the stamp of the queue increases.
QFreeze ==
  /\ InCaller
  /\ solver.queue_.stamp_ < MaxQueueStamp
  /\ solver' = Freeze(solver)
  /\ g_window' = NoWindow
  /\ g_last' = NoDispatch
  /\ UNCHANGED <<g_search, parameters, cts, ref, g_snap, stack, g_order>>

\* Solver::UnfreezeQueue() by the caller, of a frozen queue.
QUnfreeze ==
  /\ InCaller
  /\ solver.queue_.freeze_level_ > 0
  /\ LET r == ProcessIfUnfrozen(Unfreeze(solver), stack)
     IN /\ solver' = r.S
        /\ stack' = r.stack
  /\ g_last' = NoDispatch
  /\ UNCHANGED <<g_search, parameters, cts, ref, g_snap, g_window, g_order>>

\* Solver::ProcessDemonsOnQueue() by the caller: enters ProcessNormalDemons().
QProcessDemonsOnQueue ==
  /\ InCaller
  /\ stack' = Append(stack, NormalFrame)
  /\ g_last' = NoDispatch
  /\ UNCHANGED <<g_search, parameters, cts, ref, g_snap, g_window, g_order, solver>>

\* demon->Run() returns to ProcessOneDemon, which returns to its loop.
QRunReturns ==
  /\ stack # <<>>
  /\ Top(stack).kind = "Run"
  /\ stack' = Pop(stack)
  /\ g_last' = NoDispatch
  /\ UNCHANGED <<g_search, parameters, cts, ref, g_snap, g_window, g_order, solver>>

\* ProcessOneDemon(prio) in the frame on top of the stack, which goes on at
\* pc when the demon returns.
Dispatch(prio, pc) ==
  LET r == ProcessOneDemon(solver, prio)
      c == solver.queue_.containers_
  IN /\ solver' = r.S
     /\ stack' = IF r.demon # 0
                 THEN Append(SetPc(stack, pc), RunFrame(r.demon))
                 ELSE SetPc(stack, pc)
     /\ IF r.demon # 0
        THEN /\ g_last' = [ op |-> "dispatch", demon |-> r.demon, prio |-> prio,
                            oldest |-> Head(g_order[prio]),
                            waiting |-> Len(g_order[prio]),
                            normal_empty |-> Empty(c[NORMAL_PRIORITY]),
                            var_empty |-> Empty(c[VAR_PRIORITY]) ]
             /\ g_window' = [g_window EXCEPT ![r.demon].runs = @ + 1]
             /\ g_order' = [g_order EXCEPT ![prio] =
                              LET i == CHOOSE i \in 1..Len(@) : @[i] = r.demon
                              IN SubSeq(@, 1, i - 1) \o SubSeq(@, i + 1, Len(@))]
        ELSE g_last' = NoDispatch /\ UNCHANGED <<g_window, g_order>>
     /\ UNCHANGED <<g_search, parameters, cts, ref, g_snap>>

InFrame(kind, pc) ==
  IF stack = <<>> THEN FALSE ELSE Top(stack).kind = kind /\ Top(stack).pc = pc

MutProcessLeavesDelayed ==
  /\ InFrame("Process", "outer")
  /\ LET c == solver.queue_.containers_
     IN IF ~Empty(c[VAR_PRIORITY]) \/ ~Empty(c[NORMAL_PRIORITY])
        THEN /\ stack' = SetPc(stack, "inner")
             /\ UNCHANGED solver
        ELSE /\ solver' = [solver EXCEPT !.queue_.in_process_ = FALSE]
             /\ stack' = Pop(stack)
  /\ g_last' = NoDispatch
  /\ UNCHANGED <<g_search, parameters, cts, ref, g_snap, g_window, g_order>>

\* Queue::Process(): the test of the outer loop, and the return.
ProcessOuter ==
  /\ InFrame("Process", "outer")
  /\ LET c == solver.queue_.containers_
     IN IF ~Empty(c[VAR_PRIORITY]) \/ ~Empty(c[NORMAL_PRIORITY])
           \/ ~Empty(c[DELAYED_PRIORITY])
        THEN /\ stack' = SetPc(stack, "inner")
             /\ UNCHANGED solver
        ELSE /\ solver' = [solver EXCEPT !.queue_.in_process_ = FALSE]
             /\ stack' = Pop(stack)
  /\ g_last' = NoDispatch
  /\ UNCHANGED <<g_search, parameters, cts, ref, g_snap, g_window, g_order>>

\* Queue::Process(): the test of the middle loop.
ProcessInner ==
  /\ InFrame("Process", "inner")
  /\ LET c == solver.queue_.containers_
     IN stack' = IF ~Empty(c[VAR_PRIORITY]) \/ ~Empty(c[NORMAL_PRIORITY])
                 THEN SetPc(stack, "normal")
                 ELSE SetPc(stack, "delayed")
  /\ g_last' = NoDispatch
  /\ UNCHANGED <<g_search, parameters, cts, ref, g_snap, g_window, g_order, solver>>

MutProcessVarFirst ==
  /\ InFrame("Process", "normal")
  /\ Dispatch(VAR_PRIORITY, "inner")

\* Queue::Process(): the innermost loop.
ProcessNormal ==
  /\ InFrame("Process", "normal")
  /\ IF ~Empty(solver.queue_.containers_[NORMAL_PRIORITY])
     THEN Dispatch(NORMAL_PRIORITY, "normal")
     ELSE /\ stack' = SetPc(stack, "var")
          /\ g_last' = NoDispatch
          /\ UNCHANGED <<g_search, parameters, cts, ref, g_snap, g_window, g_order, solver>>

\* Queue::Process(): ProcessOneDemon(VAR_PRIORITY), then the middle loop again.
ProcessVar ==
  /\ InFrame("Process", "var")
  /\ Dispatch(VAR_PRIORITY, "inner")

\* Queue::Process(): ProcessOneDemon(DELAYED_PRIORITY), then the outer loop
\* again.
ProcessDelayed ==
  /\ InFrame("Process", "delayed")
  /\ Dispatch(DELAYED_PRIORITY, "outer")

\* Queue::ProcessNormalDemons(): its loop, and the return.
ProcessNormalDemons ==
  /\ InFrame("ProcessNormalDemons", "normal")
  /\ IF ~Empty(solver.queue_.containers_[NORMAL_PRIORITY])
     THEN Dispatch(NORMAL_PRIORITY, "normal")
     ELSE /\ stack' = Pop(stack)
          /\ g_last' = NoDispatch
          /\ UNCHANGED <<g_search, parameters, cts, ref, g_snap, g_window, g_order, solver>>

QueueNext ==
  \/ QEnqueue
  \/ QFreeze
  \/ QUnfreeze
  \/ QProcessDemonsOnQueue
  \/ QRunReturns
  \/ ProcessOuter
  \/ ProcessInner
  \/ ProcessNormal
  \/ ProcessVar
  \/ ProcessDelayed
  \/ ProcessNormalDemons

SpecQueue == QueueInit /\ [][QueueNext]_vars

\* C4 as stated: between two increments of the stamp of the queue, a demon
\* is dispatched at most once, whoever calls Enqueue on it.
DemonEnqueueIdempotence ==
  \A d \in Demons : g_window[d].runs <= 1

\* C4, amended: between two increments of the stamp of the queue, Enqueue
\* on a demon is accepted at most once more often than the demon has been
\* dispatched: a call on a demon enqueued at this stamp and not dispatched
\* since is ignored, and a demon whose dispatch has begun can be enqueued,
\* and then dispatched, again.
DemonEnqueueOncePerDispatch ==
  \A d \in Demons : g_window[d].accepted <= 1 + g_window[d].runs

\* During a drain a demon that was dispatched has been enqueued again at
\* the same stamp; it is pending and further Enqueue on it are ignored.
DemonEnqueueWitness ==
  \E d \in Demons :
    /\ g_window[d].runs >= 1
    /\ g_window[d].accepted = g_window[d].runs + 1
    /\ PendingCount(solver, d) = 1
    /\ ~Accepts(solver, d)
    /\ solver.queue_.in_process_

\* C5: when a DELAYED demon is dispatched the NORMAL and VAR queues are
\* empty, and when a VAR demon is dispatched the NORMAL queue is empty.
PriorityOrdering ==
  g_last.op = "dispatch" =>
    /\ g_last.prio = DELAYED_PRIORITY => g_last.normal_empty /\ g_last.var_empty
    /\ g_last.prio = VAR_PRIORITY => g_last.normal_empty

\* A DELAYED demon has been dispatched by a drain in which a NORMAL demon
\* and a VAR demon were dispatched before it.
PriorityOrderingWitness ==
  /\ g_last.op = "dispatch"
  /\ g_last.prio = DELAYED_PRIORITY
  /\ solver.queue_.in_process_
  /\ solver.demon_runs_[NORMAL_PRIORITY] > 0
  /\ solver.demon_runs_[VAR_PRIORITY] > 0

\* C6: the demon dispatched from a priority is the one enqueued first among
\* the demons pending in that priority.
FifoWithinPriority ==
  g_last.op = "dispatch" => g_last.demon = g_last.oldest

\* A demon was dispatched while another of its priority, enqueued after it,
\* was pending, and a cell of the free list had been filled again.
FifoWithinPriorityWitness ==
  /\ g_last.op = "dispatch"
  /\ g_last.waiting >= 2
  /\ solver.demon_runs_[g_last.prio] >= 2
  /\ Len(solver.queue_.containers_[g_last.prio].cells_) = 2

\* ------------------------------------------------- specification: the search
\* A client at top level calls NewSearch, NextSolution, EndSearch and Solve
\* on a model with the constraint x = 1, or x = 1 and x = 2, a decision
\* builder of depth MaxDepth and one monitor.
Models == {<<Equality(1)>>, <<Equality(1), Equality(2)>>}
Contradictory(model) == \E i, j \in 1..Len(model) : model[i].value # model[j].value
NoGoods == {{}} \cup {{n} : n \in Nodes}
LeafSets == {{}} \cup {{l} : l \in Leaves}

SearchParameters ==
  {p \in [ trail_block_size : {1}, compress_trail : {NO_COMPRESSION},
           constraints : Models, nogood : NoGoods, reject : LeafSets,
           finish : LeafSets, at_solution : BOOLEAN ] :
     /\ p.finish # {} =>
          p.nogood = {} /\ p.reject \in {{}, p.finish} /\ ~p.at_solution
     /\ p.at_solution => p.nogood = {}
     /\ Contradictory(p.constraints) =>
          p.nogood = {} /\ p.reject = {} /\ p.finish = {} /\ ~p.at_solution}

\* What the model says of its tree: the nodes below a forbidden node are
\* not in the tree, and the solutions are the leaves of the tree that the
\* monitor accepts.
Pruned(p) == \E k \in 1..Len(p) : SubSeq(p, 1, k) \in parameters.nogood
TreeNodes ==
  IF Contradictory(parameters.constraints) THEN {}
  ELSE {p \in Nodes : ~Pruned(SubSeq(p, 1, Len(p) - 1))}
AcceptedLeaves ==
  IF Contradictory(parameters.constraints) THEN {}
  ELSE {p \in Leaves : ~Pruned(p) /\ p \notin parameters.reject}

\* The model posted before any search: Solver::AddConstraint on each.
RECURSIVE AddConstraints(_, _)
AddConstraints(S, cs) ==
  IF cs = <<>> THEN S ELSE AddConstraints(AddConstraint(S, Head(cs)), Tail(cs))

NoReturn == [op |-> "none", result |-> FALSE, root_failed |-> FALSE]
\* No leaf has been reached: what the search did at its last leaf.
NoLeaf ==
  [ reached |-> FALSE, monitors |-> <<>>, solutions |-> 0, accept |-> <<>>,
    accepted |-> FALSE, at |-> <<>>, continues |-> FALSE ]
NoSearch ==
  [ searches |-> 0, reported |-> <<>>, visited |-> {},
    call_branches |-> 0, call_decisions |-> 0, leaf |-> NoLeaf ]

\* What a search starts from: the memory, the cells of the trail and the
\* markers under the INITIAL_SEARCH sentinel.
Snapshot(S) ==
  [ memory |-> S.memory, cells |-> TrailCells(S),
    marker_stack |-> SubSeq(MarkerStack(S), 1, Len(MarkerStack(S)) - 1) ]

SearchInit ==
  /\ parameters \in SearchParameters
  /\ solver = AddConstraints(NewSolver(parameters), parameters.constraints)
  /\ stack = <<>>
  /\ g_last = NoReturn
  /\ g_search = NoSearch
  /\ g_snap = <<>>
  /\ g_window = <<>>
  /\ g_order = <<>>
  /\ cts = <<>>
  /\ ref = <<>>

\* The frames of the call stack of a search: Solve() and NextSolution()
\* with its locals.
SolveFrame(pc) == [kind |-> "Solve", pc |-> pc]
NextSolutionFrame(pc, fd, finish, result, top_level) ==
  [ kind |-> "NextSolution", pc |-> pc, fd |-> fd, finish |-> finish,
    result |-> result, top_level |-> top_level ]

\* The client is executing, and the process has not been aborted.
AtClient == stack = <<>> /\ ~solver.abort_

\* A search is closed by EndSearch() and not opened again.
Closed(S) ==
  /\ S.state_ = OUTSIDE_SEARCH
  /\ ActiveSearch(S).sentinel_pushed_ = 0
  /\ ActiveSearch(S).decision_builder_ # 0

\* NewSearch(db, monitor) by the client.
CNewSearch ==
  /\ AtClient
  /\ g_search.searches < MaxSearches
  /\ solver' = NewSearch(solver)
  /\ g_snap' = Snapshot(solver')
  /\ g_search' = [NoSearch EXCEPT !.searches = g_search.searches + 1]
  /\ g_last' = NoReturn
  /\ UNCHANGED <<parameters, cts, ref, stack, g_window, g_order>>

\* NextSolution() called by the client, while the search is not closed.
CNextSolution ==
  /\ AtClient
  /\ ~Closed(solver)
  /\ stack' = <<NextSolutionFrame("entry", 0, FALSE, FALSE, FALSE)>>
  /\ g_search' = [g_search EXCEPT !.call_branches = solver.branches_,
                                  !.call_decisions = solver.decisions_]
  /\ g_last' = NoReturn
  /\ UNCHANGED <<parameters, cts, ref, solver, g_snap, g_window, g_order>>

\* EndSearch() by the client, of a search that is open.
CEndSearch ==
  /\ AtClient
  /\ ActiveSearch(solver).decision_builder_ # 0
  /\ ~Closed(solver)
  /\ solver' = EndSearch(solver)
  /\ g_last' = NoReturn
  /\ UNCHANGED <<parameters, cts, ref, stack, g_snap, g_search, g_window, g_order>>

\* Solve(db, monitor) by the client: NewSearch, set_created_by_solve(true),
\* and the call of NextSolution().
CSolve ==
  /\ AtClient
  /\ g_search.searches < MaxSearches
  /\ \E S1 \in {NewSearch(solver)} :
        /\ solver' = [S1 EXCEPT !.searches_[Back_(S1)].created_by_solve_ = TRUE]
        /\ g_snap' = Snapshot(S1)
        /\ g_search' = [NoSearch EXCEPT !.searches = g_search.searches + 1,
                                        !.call_branches = S1.branches_,
                                        !.call_decisions = S1.decisions_]
  /\ stack' = <<SolveFrame("call"),
                NextSolutionFrame("entry", 0, FALSE, FALSE, FALSE)>>
  /\ g_last' = NoReturn
  /\ UNCHANGED <<parameters, cts, ref, g_window, g_order>>

\* Solve(): after NextSolution(), solution_found, EndSearch() and the return.
SolveReturns ==
  /\ InFrame("Solve", "returned")
  /\ ~solver.abort_
  /\ solver' = EndSearch(solver)
  /\ stack' = Pop(stack)
  /\ g_last' = [ op |-> "Solve",
                 result |-> ActiveSearch(solver).solution_counter_ > 0,
                 root_failed |-> g_last.root_failed ]
  /\ UNCHANGED <<parameters, cts, ref, g_snap, g_search, g_window, g_order>>

\* NextSolution() is at pc.
InNextSolution(pc) == InFrame("NextSolution", pc) /\ ~solver.abort_

\* NextSolution() goes on at pc with the locals fd and finish.
GoOn(pc, fd, finish, result) ==
  stack' = [stack EXCEPT ![Len(stack)].pc = pc,
                         ![Len(stack)].fd = fd,
                         ![Len(stack)].finish = finish,
                         ![Len(stack)].result = result]

\* NextSolution() returns result to its caller.
Return(result, root_failed) ==
  /\ stack' = IF Len(stack) > 1 THEN SetPc(Pop(stack), "returned") ELSE <<>>
  /\ g_last' = [op |-> "NextSolution", result |-> result,
                root_failed |-> root_failed]

MutEntrySearchesOn ==
  /\ InNextSolution("entry")
  /\ LET search == ActiveSearch(solver)
         solve_depth == SolveDepth(solver)
         top_level == solve_depth <= 1
     IN IF solve_depth = 0 /\ search.decision_builder_ = 0
        THEN /\ Return(FALSE, FALSE)
             /\ UNCHANGED solver
        ELSE IF ~top_level
        THEN /\ stack' = [stack EXCEPT ![Len(stack)].pc = "loop",
                                       ![Len(stack)].top_level = FALSE]
             /\ UNCHANGED <<solver, g_last>>
        ELSE CASE solver.state_ = PROBLEM_INFEASIBLE ->
                    /\ Return(FALSE, FALSE)
                    /\ UNCHANGED solver
               [] solver.state_ = AT_SOLUTION ->
                    \E b \in {BacktrackOneLevel(solver, 0)} :
                      IF b.no_more_solutions
                      THEN /\ solver' = [b.S EXCEPT !.state_ = NO_MORE_SOLUTIONS]
                           /\ Return(FALSE, FALSE)
                      ELSE /\ solver' = [b.S EXCEPT !.state_ = IN_SEARCH]
                           /\ stack' = [stack EXCEPT
                                          ![Len(stack)].pc = "loop",
                                          ![Len(stack)].fd = b.fd,
                                          ![Len(stack)].top_level = TRUE]
                           /\ UNCHANGED g_last
               [] solver.state_ = OUTSIDE_SEARCH ->
                    /\ solver' = CP_TRY([solver EXCEPT !.state_ = IN_ROOT_NODE])
                    /\ stack' = [stack EXCEPT ![Len(stack)].pc = "root",
                                              ![Len(stack)].top_level = TRUE]
                    /\ UNCHANGED g_last
               [] solver.state_ \in {IN_SEARCH, NO_MORE_SOLUTIONS} ->
                    /\ stack' = [stack EXCEPT ![Len(stack)].pc = "loop",
                                              ![Len(stack)].top_level = TRUE]
                    /\ UNCHANGED <<solver, g_last>>
               [] solver.state_ = IN_ROOT_NODE ->
                    /\ solver' = Abort(solver)
                    /\ UNCHANGED <<stack, g_last>>
  /\ UNCHANGED <<parameters, cts, ref, g_snap, g_search, g_window, g_order>>

\* NextSolution(): from its entry to the try-region of the root node or to
\* the loop.
NSEntry ==
  /\ InNextSolution("entry")
  /\ LET search == ActiveSearch(solver)
         solve_depth == SolveDepth(solver)
         top_level == solve_depth <= 1
     IN IF solve_depth = 0 /\ search.decision_builder_ = 0
        THEN /\ Return(FALSE, FALSE)
             /\ UNCHANGED solver
        ELSE IF ~top_level
        THEN /\ stack' = [stack EXCEPT ![Len(stack)].pc = "loop",
                                       ![Len(stack)].top_level = FALSE]
             /\ UNCHANGED <<solver, g_last>>
        ELSE CASE solver.state_ \in {PROBLEM_INFEASIBLE, NO_MORE_SOLUTIONS} ->
                    /\ Return(FALSE, FALSE)
                    /\ UNCHANGED solver
               [] solver.state_ = AT_SOLUTION ->
                    \E b \in {BacktrackOneLevel(solver, 0)} :
                      IF b.no_more_solutions
                      THEN /\ solver' = [b.S EXCEPT !.state_ = NO_MORE_SOLUTIONS]
                           /\ Return(FALSE, FALSE)
                      ELSE /\ solver' = [b.S EXCEPT !.state_ = IN_SEARCH]
                           /\ stack' = [stack EXCEPT
                                          ![Len(stack)].pc = "loop",
                                          ![Len(stack)].fd = b.fd,
                                          ![Len(stack)].top_level = TRUE]
                           /\ UNCHANGED g_last
               [] solver.state_ = OUTSIDE_SEARCH ->
                    /\ solver' = CP_TRY([solver EXCEPT !.state_ = IN_ROOT_NODE])
                    /\ stack' = [stack EXCEPT ![Len(stack)].pc = "root",
                                              ![Len(stack)].top_level = TRUE]
                    /\ UNCHANGED g_last
               [] solver.state_ = IN_SEARCH ->
                    /\ stack' = [stack EXCEPT ![Len(stack)].pc = "loop",
                                              ![Len(stack)].top_level = TRUE]
                    /\ UNCHANGED <<solver, g_last>>
               [] solver.state_ = IN_ROOT_NODE ->
                    /\ solver' = Abort(solver)
                    /\ UNCHANGED <<stack, g_last>>
  /\ UNCHANGED <<parameters, cts, ref, g_snap, g_search, g_window, g_order>>

\* NextSolution(): the try-region of the root node.  When a constraint
\* fails the control goes to its CP_ON_FAIL.
NSRoot ==
  /\ InNextSolution("root")
  /\ \E r \in {ProcessConstraints(solver)}, f \in {Top(stack)} :
        IF r.failed
        THEN /\ solver' = Fail(r.S)
             /\ GoOn("root_fail", f.fd, f.finish, f.result)
        ELSE /\ solver' = ClearBuffer(
                            [PushSentinel(r.S, ROOT_NODE_SENTINEL) EXCEPT
                               !.state_ = IN_SEARCH])
             /\ GoOn("loop", f.fd, f.finish, f.result)
  /\ g_last' = NoReturn
  /\ UNCHANGED <<parameters, cts, ref, g_snap, g_search, g_window, g_order>>

MutRootFailKeepsTrail ==
  /\ InNextSolution("root_fail")
  /\ solver' = [AfterFailure(solver) EXCEPT !.state_ = PROBLEM_INFEASIBLE]
  /\ Return(FALSE, TRUE)
  /\ UNCHANGED <<parameters, cts, ref, g_snap, g_search, g_window, g_order>>

MutRootFailNoMoreSolutions ==
  /\ InNextSolution("root_fail")
  /\ solver' = [BacktrackToSentinel(AfterFailure(solver),
                                    INITIAL_SEARCH_SENTINEL)
                  EXCEPT !.state_ = NO_MORE_SOLUTIONS]
  /\ Return(FALSE, TRUE)
  /\ UNCHANGED <<parameters, cts, ref, g_snap, g_search, g_window, g_order>>

\* NextSolution(): CP_ON_FAIL of the root node.
NSRootFail ==
  /\ InNextSolution("root_fail")
  /\ solver' = [BacktrackToSentinel(AfterFailure(solver),
                                    INITIAL_SEARCH_SENTINEL)
                  EXCEPT !.state_ = PROBLEM_INFEASIBLE]
  /\ Return(FALSE, TRUE)
  /\ UNCHANGED <<parameters, cts, ref, g_snap, g_search, g_window, g_order>>

\* NextSolution(): an iteration of while (!finish) begins: CP_TRY, and the
\* right branch of fd when there is one.
NSLoop ==
  /\ InNextSolution("loop")
  /\ ~Top(stack).finish
  /\ LET f == Top(stack)
     IN IF f.fd # 0
        THEN \E r \in {RefuteBranch(CP_TRY(solver), f.fd)} :
             /\ solver' = IF r.failed THEN Fail(r.S) ELSE r.S
             /\ GoOn(IF r.failed THEN "fail" ELSE "next",
                     IF r.failed THEN f.fd ELSE 0, f.finish, f.result)
             /\ g_search' = [g_search EXCEPT
                               !.visited = IF r.ran
                                           THEN @ \cup {CurrentPath(r.S)}
                                           ELSE @]
        ELSE /\ solver' = CP_TRY(solver)
             /\ GoOn("next", f.fd, f.finish, f.result)
             /\ UNCHANGED g_search
  /\ g_last' = NoReturn
  /\ UNCHANGED <<parameters, cts, ref, g_snap, g_window, g_order>>

\* NextSolution(): one turn of for (;;): BeginNextDecision, db->Next,
\* EndNextDecision, and the left branch of the decision when there is one.
NSNext ==
  /\ InNextSolution("next")
  /\ LET f == Top(stack)
         d == Next(solver)
     IN IF CheckFail(solver)
        THEN /\ solver' = Fail(solver)
             /\ GoOn("fail", f.fd, f.finish, f.result)
             /\ UNCHANGED g_search
        ELSE IF d = 0
        THEN /\ GoOn("leaf", f.fd, f.finish, f.result)
             /\ UNCHANGED <<solver, g_search>>
        ELSE \E r \in {ApplyBranch(solver, d)} :
             /\ solver' = IF r.failed THEN Fail(r.S) ELSE r.S
             /\ GoOn(IF r.failed THEN "fail" ELSE "next",
                     f.fd, f.finish, f.result)
             /\ g_search' = [g_search EXCEPT
                               !.visited = IF r.ran
                                           THEN @ \cup {CurrentPath(r.S)}
                                           ELSE @]
  /\ g_last' = NoReturn
  /\ UNCHANGED <<parameters, cts, ref, g_snap, g_window, g_order>>

\* What NextSolution() did at a leaf of the search S: the monitors of the
\* search and its solution counter on arrival, the calls AcceptSolution()
\* made and the branch its result selected, the calls AtSolution() made and
\* its result.
LeafDone(S, accept, accepted, at, continues) ==
  [ reached |-> TRUE, monitors |-> ActiveSearch(S).monitors_,
    solutions |-> ActiveSearch(S).solution_counter_, accept |-> accept,
    accepted |-> accepted, at |-> at, continues |-> continues ]

\* NextSolution(): at a leaf, AcceptSolution, IncrementSolutionCounter and
\* AtSolution.
NSLeaf ==
  /\ InNextSolution("leaf")
  /\ \E f \in {Top(stack)}, a \in {AcceptSolution(solver)} :
        IF a.ok
        THEN \E S1 \in {[a.S EXCEPT
                           !.searches_[Back_(solver)].solution_counter_ = @ + 1]} :
             \E c \in {AtSolution(S1)} :
             IF ~c.go \/ ~CurrentlyInSolve(S1)
             THEN /\ solver' = S1
                  /\ GoOn("loop", f.fd, TRUE, TRUE)
                  /\ g_search' = [g_search EXCEPT
                                    !.reported = Append(@, CurrentPath(solver)),
                                    !.leaf = LeafDone(solver, a.calls, TRUE,
                                                      c.calls, c.go)]
             ELSE /\ solver' = Fail(S1)
                  /\ GoOn("fail", f.fd, f.finish, f.result)
                  /\ g_search' = [g_search EXCEPT
                                    !.leaf = LeafDone(solver, a.calls, TRUE,
                                                      c.calls, c.go)]
        ELSE /\ solver' = Fail(a.S)
             /\ GoOn("fail", f.fd, f.finish, f.result)
             /\ g_search' = [g_search EXCEPT
                               !.leaf = LeafDone(solver, a.calls, FALSE,
                                                 <<>>, FALSE)]
  /\ g_last' = NoReturn
  /\ UNCHANGED <<parameters, cts, ref, g_snap, g_window, g_order>>

\* NextSolution(): CP_ON_FAIL of the loop.
NSOnFail ==
  /\ InNextSolution("fail")
  /\ \E f \in {Top(stack)}, r \in {OnFail(solver, Top(stack).fd, Top(stack).top_level)} :
        /\ solver' = r.S
        /\ GoOn("loop", r.fd, r.finish, IF r.finish THEN FALSE ELSE f.result)
  /\ g_last' = NoReturn
  /\ UNCHANGED <<parameters, cts, ref, g_snap, g_search, g_window, g_order>>

\* NextSolution(): after the loop, ClearBuffer, the state and the return.
NSReturn ==
  /\ InNextSolution("loop")
  /\ Top(stack).finish
  /\ LET f == Top(stack)
         S1 == IF f.result THEN ClearBuffer(solver) ELSE solver
     IN /\ solver' = IF f.top_level
                     THEN [S1 EXCEPT !.state_ = IF f.result THEN AT_SOLUTION
                                                ELSE NO_MORE_SOLUTIONS]
                     ELSE S1
        /\ Return(f.result, FALSE)
  /\ UNCHANGED <<parameters, cts, ref, g_snap, g_search, g_window, g_order>>

SearchNext ==
  \/ CNewSearch
  \/ CNextSolution
  \/ CEndSearch
  \/ CSolve
  \/ SolveReturns
  \/ NSEntry
  \/ NSRoot
  \/ NSRootFail
  \/ NSLoop
  \/ NSNext
  \/ NSLeaf
  \/ NSOnFail
  \/ NSReturn

SpecSearch == SearchInit /\ [][SearchNext]_vars

\* A call of NextSolution() or Solve() that has begun goes on to its return:
\* the thread of the client runs it.
NSStep ==
  \/ SolveReturns
  \/ NSEntry
  \/ NSRoot
  \/ NSRootFail
  \/ NSLoop
  \/ NSNext
  \/ NSLeaf
  \/ NSOnFail
  \/ NSReturn

SpecSearchLive == SearchInit /\ [][SearchNext]_vars /\ WF_vars(NSStep)

SearchCompletenessLeaves ==
  LET reported == g_search.reported
  IN g_search.searches > 0 /\ ~ActiveSearch(solver).created_by_solve_ =>
       /\ \A i, j \in 1..Len(reported) : reported[i] = reported[j] => i = j
       /\ \A i \in 1..Len(reported) : reported[i] \in AcceptedLeaves
       /\ g_last.op = "NextSolution" /\ ~g_last.result =>
            IF Contradictory(parameters.constraints)
            THEN /\ solver.state_ = PROBLEM_INFEASIBLE
                 /\ reported = <<>>
            ELSE /\ solver.state_ = NO_MORE_SOLUTIONS
                 /\ parameters.finish = {} =>
                      {reported[i] : i \in 1..Len(reported)} = AcceptedLeaves

StateMachine ==
  /\ [][ (IF stack = <<>> THEN FALSE
          ELSE /\ Top(stack).kind = "NextSolution"
               /\ Top(stack).pc = "entry" \/ Top(stack).top_level
               /\ solver'.state_ # solver.state_)
         => <<solver.state_, solver'.state_>> \in
              { <<OUTSIDE_SEARCH, IN_ROOT_NODE>>,
                <<IN_ROOT_NODE, IN_SEARCH>>,
                <<IN_ROOT_NODE, PROBLEM_INFEASIBLE>>,
                <<IN_SEARCH, AT_SOLUTION>>,
                <<IN_SEARCH, NO_MORE_SOLUTIONS>>,
                <<AT_SOLUTION, IN_SEARCH>>,
                <<AT_SOLUTION, NO_MORE_SOLUTIONS>> } ]_vars
  /\ [](g_last.op = "NextSolution" =>
          (g_last.result <=> solver.state_ = AT_SOLUTION))

\* C7: NextSolution() has returned true and then false in one search, after
\* the root node, the search and a solution.
StateMachineWitness ==
  /\ g_last.op = "NextSolution" /\ ~g_last.result
  /\ solver.state_ = NO_MORE_SOLUTIONS
  /\ Len(g_search.reported) >= 1
  /\ solver.branches_ >= 2

\* C8 as stated: the state is NO_MORE_SOLUTIONS only when every node of the
\* tree has been explored, also when the monitor has asked to finish.
NoMoreSolutionsAsStated ==
  solver.state_ = NO_MORE_SOLUTIONS => g_search.visited = TreeNodes

\* C8, amended: when the state is NO_MORE_SOLUTIONS no choice point of the
\* search remains on the marker stack, and every node of the tree has been
\* explored unless the monitor has asked to finish the search.
NoMoreSolutions ==
  solver.state_ = NO_MORE_SOLUTIONS =>
    /\ \A i \in 1..Len(MarkerStack(solver)) :
         MarkerStack(solver)[i].type_ # CHOICE_POINT
    /\ parameters.finish = {} => g_search.visited = TreeNodes

\* C8: the state is NO_MORE_SOLUTIONS after the search has backtracked over
\* right branches in a tree with a forbidden node, all of it explored.
NoMoreSolutionsWitness ==
  /\ solver.state_ = NO_MORE_SOLUTIONS
  /\ parameters.finish = {} /\ parameters.nogood # {}
  /\ g_search.visited = TreeNodes
  /\ Cardinality(g_search.visited) >= 4
  /\ solver.fails_ >= 2

\* C9: when the root propagation of the first NextSolution() of a search has
\* failed, NextSolution() has returned false, the state is
\* PROBLEM_INFEASIBLE, no choice point is on the marker stack, branches_ and
\* decisions_ are what they were at the call, and the trail, the memory and
\* the marker stack are what they were under the INITIAL_SEARCH sentinel,
\* which is popped.
RootInfeasibility ==
  g_last.op = "NextSolution" /\ g_last.root_failed =>
    /\ ~g_last.result
    /\ solver.state_ = PROBLEM_INFEASIBLE
    /\ \A i \in 1..Len(MarkerStack(solver)) :
         MarkerStack(solver)[i].type_ # CHOICE_POINT
    /\ solver.branches_ = g_search.call_branches
    /\ solver.decisions_ = g_search.call_decisions
    /\ TrailCells(solver) = g_snap.cells
    /\ solver.memory = g_snap.memory
    /\ MarkerStack(solver) = g_snap.marker_stack
    /\ ActiveSearch(solver).sentinel_pushed_ = 0
    /\ ~ActiveSearch(solver).jmpbuf_filled_

\* C9: NextSolution() has returned after x = 2 has failed at the root on
\* x = 1, which was saved on the trail and is undone.
RootInfeasibilityWitness ==
  /\ g_last.op = "NextSolution" /\ g_last.root_failed
  /\ Contradictory(parameters.constraints)
  /\ solver.fails_ >= 1
  /\ solver.constraint_index_ = 1
  /\ solver.memory[XAddr] = 0
  /\ stack = <<>>

\* C10 as stated: after Solve() on the contradictory model, Solve() has
\* returned false, the state is PROBLEM_INFEASIBLE and branches_ is 0.
RootInfeasibleSolveAsStated ==
  g_last.op = "Solve" /\ Contradictory(parameters.constraints) =>
    /\ ~g_last.result
    /\ solver.state_ = PROBLEM_INFEASIBLE
    /\ solver.branches_ = 0

\* C10, amended: after Solve() on the contradictory model, Solve() has
\* returned false, its NextSolution() had failed at the root, branches_ is 0
\* and the state is OUTSIDE_SEARCH, which EndSearch() sets; the state is
\* PROBLEM_INFEASIBLE from the return of NextSolution() to EndSearch().
RootInfeasibleSolve ==
  /\ g_last.op = "Solve" /\ Contradictory(parameters.constraints) =>
       /\ ~g_last.result
       /\ g_last.root_failed
       /\ solver.state_ = OUTSIDE_SEARCH
       /\ solver.branches_ = 0
  /\ InFrame("Solve", "returned") /\ Contradictory(parameters.constraints) =>
       /\ solver.state_ = PROBLEM_INFEASIBLE
       /\ solver.branches_ = 0

\* C10: Solve() has returned on the contradictory model.
RootInfeasibleSolveWitness ==
  /\ g_last.op = "Solve" /\ g_last.root_failed
  /\ Contradictory(parameters.constraints)
  /\ solver.fails_ >= 1
  /\ stack = <<>>

\* The monitors that a sequence of calls has called, in the order of the
\* calls.
Called(calls) == [i \in 1..Len(calls) |-> calls[i].m]

\* C11: at a leaf AcceptSolution() is called once on every monitor of the
\* active search, in the order of their registration, also on the monitors
\* that follow one that has returned false; the leaf is accepted if and only
\* if every monitor has returned true.
AcceptSolutionDispatch ==
  g_search.leaf.reached =>
    /\ Called(g_search.leaf.accept) = g_search.leaf.monitors
    /\ g_search.leaf.accepted <=>
         \A i \in 1..Len(g_search.leaf.accept) : g_search.leaf.accept[i].result

\* A leaf that the monitor of the client has rejected, with the monitor
\* registered after it called nevertheless.
AcceptSolutionDispatchWitness ==
  /\ g_search.leaf.reached
  /\ \E i, j \in 1..Len(g_search.leaf.accept) :
        /\ i < j
        /\ ~g_search.leaf.accept[i].result
        /\ g_search.leaf.accept[j].m = g_search.leaf.monitors[j]
  /\ ~g_search.leaf.accepted

\* C12: after a leaf is accepted the solution counter is incremented, and
\* then AtSolution() is called once on every monitor, also on the monitors
\* that follow one that has returned true; its result is true if and only if
\* some monitor has returned true.
AtSolutionDispatch ==
  g_search.leaf.reached /\ g_search.leaf.accepted =>
    /\ Called(g_search.leaf.at) = g_search.leaf.monitors
    /\ \A i \in 1..Len(g_search.leaf.at) :
          g_search.leaf.at[i].solutions = g_search.leaf.solutions + 1
    /\ g_search.leaf.continues <=>
         \E i \in 1..Len(g_search.leaf.at) : g_search.leaf.at[i].result

\* An accepted leaf where the monitor of the client has returned true from
\* AtSolution(), with the monitor registered after it called nevertheless.
AtSolutionDispatchWitness ==
  /\ g_search.leaf.reached
  /\ g_search.leaf.accepted
  /\ g_search.leaf.continues
  /\ \E i, j \in 1..Len(g_search.leaf.at) :
        /\ i < j
        /\ g_search.leaf.at[i].result
        /\ g_search.leaf.at[j].m = g_search.leaf.monitors[j]
        /\ ~g_search.leaf.at[j].result

\* ------------------------------------------ specification: the sentinels
\* The code that pushes markers on the active search and goes back to a
\* sentinel: NewSearch() and NextSolution() push the INITIAL_SEARCH and the
\* ROOT_NODE sentinel in this order, the search pushes choice points, and
\* the constraints and the client push simple markers and reversible
\* actions and save the reversible variable of the model, whose type is
\* any of the types of the trail.
SentinelParameters ==
  [trail_block_size : {1}, compress_trail : {NO_COMPRESSION},
   variable : ClientAddrs]

\* The length of every kind of the trail.
Lengths(tr) ==
  [ rev_ints_ |-> size(tr.rev_ints_),
    rev_int64s_ |-> size(tr.rev_int64s_),
    rev_uint64s_ |-> size(tr.rev_uint64s_),
    rev_ptrs_ |-> size(tr.rev_ptrs_),
    rev_boolvar_list_ |-> Len(tr.rev_boolvar_list_),
    rev_bools_ |-> Len(tr.rev_bools_),
    rev_bool_value_ |-> Len(tr.rev_bool_value_),
    rev_int_memory_ |-> Len(tr.rev_int_memory_),
    rev_int64_memory_ |-> Len(tr.rev_int64_memory_),
    rev_object_memory_ |-> Len(tr.rev_object_memory_),
    rev_object_array_memory_ |-> Len(tr.rev_object_array_memory_),
    rev_memory_ |-> Len(tr.rev_memory_),
    rev_memory_array_ |-> Len(tr.rev_memory_array_) ]

\* The action of the reversible actions: it counts its runs at this address.
ActionAddr == 6

\* Solver::AddBacktrackAction(a, fast).
AddBacktrackAction(S, a, fast) ==
  PushState(S, REVERSIBLE_ACTION, StateInfo(a, IF fast THEN 1 ELSE 0, 0, 0))

NoBacktrack ==
  [ op |-> "none", code |-> 0, popped |-> FALSE, expect |-> <<>>,
    above |-> {}, undone |-> 0 ]

SentinelInit ==
  /\ parameters \in SentinelParameters
  /\ solver = NewSolver(parameters)
  /\ g_snap = <<Lengths(solver.trail_)>>
  /\ g_last = NoBacktrack
  /\ cts = <<>>
  /\ ref = <<>>
  /\ stack = <<>>
  /\ g_window = <<>>
  /\ g_order = <<>>
  /\ g_search = <<>>

\* The stack of markers is being built: BacktrackToSentinel has not been
\* called since the constructor.
Building ==
  /\ ~solver.abort_
  /\ solver.fail_stamp_ = NewSolver(parameters).fail_stamp_

\* A marker can be pushed.
CanPush ==
  /\ Building
  /\ Len(MarkerStack(solver)) < 1 + MaxMarkers

\* The solver after a push: the lengths of the trail at the push are noted.
Pushed(S) ==
  /\ solver' = S
  /\ g_snap' = Append(g_snap, Lengths(solver.trail_))
  /\ g_last' = NoBacktrack
  /\ UNCHANGED <<parameters, cts, ref, stack, g_window, g_order, g_search>>

\* PushSentinel(INITIAL_SEARCH_SENTINEL) of NewSearch() and
\* PushSentinel(ROOT_NODE_SENTINEL) of NextSolution().
SPushSentinel ==
  /\ CanPush
  /\ \E magic_code \in {INITIAL_SEARCH_SENTINEL, ROOT_NODE_SENTINEL} :
        /\ \/ /\ magic_code = INITIAL_SEARCH_SENTINEL
              /\ ActiveSearch(solver).sentinel_pushed_ = 0
           \/ /\ magic_code = ROOT_NODE_SENTINEL
              /\ ActiveSearch(solver).sentinel_pushed_ = 1
        /\ Pushed(PushSentinel(solver, magic_code))

\* PushState() and PushState(CHOICE_POINT, info).
SPushState ==
  /\ CanPush
  /\ \E t \in {SIMPLE_MARKER, CHOICE_POINT} :
        Pushed(PushState(solver, t, StateInfo(0, 0, 0, 0)))

\* AddBacktrackAction(a, fast).
SAddBacktrackAction ==
  /\ CanPush
  /\ \E fast \in BOOLEAN :
        Pushed(AddBacktrackAction(solver, ActionAddr, fast))

\* The save of the variable of the model and the write of its other value.
SSaveAndWrite ==
  /\ Building
  /\ TrailCells(solver) < MaxSentinelSaves
  /\ solver' = [InternalSaveValue(solver, parameters.variable) EXCEPT
                  !.memory[parameters.variable] = 1 - @]
  /\ g_last' = NoBacktrack
  /\ UNCHANGED <<parameters, cts, ref, stack, g_snap, g_window, g_order, g_search>>

\* The markers of the active search that are sentinels with magic_code.
SentinelsOf(S, magic_code) ==
  {k \in 1..Len(MarkerStack(S)) :
     /\ MarkerStack(S)[k].type_ = SENTINEL
     /\ MarkerStack(S)[k].info_.int_info = magic_code}

\* The topmost of a set of markers that is not empty.
Topmost(ks) == CHOOSE k \in ks : \A j \in ks : j <= k

\* What BacktrackToSentinel(magic_code) is expected to do on S, that pops
\* the sentinel k: the lengths noted at the push of k, the types of the
\* markers above it.
Expected(S, snap, magic_code, k) ==
  [ op |-> "BacktrackToSentinel", code |-> magic_code, popped |-> TRUE,
    expect |-> snap[k],
    above |-> {MarkerStack(S)[j].type_ : j \in (k + 1)..Len(MarkerStack(S))},
    undone |-> TrailCells(S) ]

\* BacktrackToSentinel(magic_code).
SBacktrackToSentinel ==
  /\ Building
  /\ \E magic_code \in {INITIAL_SEARCH_SENTINEL, ROOT_NODE_SENTINEL} :
        /\ solver' = BacktrackToSentinel(solver, magic_code)
        /\ g_last' =
             IF /\ SentinelsOf(solver, magic_code) # {}
                /\ ActiveSearch(solver).sentinel_pushed_ # 0
             THEN [Expected(solver, g_snap, magic_code,
                            Topmost(SentinelsOf(solver, magic_code)))
                   EXCEPT !.undone = @ - TrailCells(solver')]
             ELSE [NoBacktrack EXCEPT !.op = "BacktrackToSentinel",
                                      !.code = magic_code]
        /\ g_snap' = SubSeq(g_snap, 1, Len(MarkerStack(solver')))
  /\ UNCHANGED <<parameters, cts, ref, stack, g_window, g_order, g_search>>

SentinelNext ==
  \/ SPushSentinel
  \/ SPushState
  \/ SAddBacktrackAction
  \/ SSaveAndWrite
  \/ SBacktrackToSentinel

SpecSentinel == SentinelInit /\ [][SentinelNext]_vars

\* C13: after BacktrackToSentinel(c) has popped the sentinel with magic
\* code c, the length of every kind of the trail is the length the marker
\* of that sentinel noted when it was pushed, whatever markers were pushed
\* above it.
SentinelSymmetry ==
  g_last.op = "BacktrackToSentinel" /\ g_last.popped =>
    Lengths(solver.trail_) = g_last.expect

\* The INITIAL_SEARCH sentinel has been popped from under another sentinel
\* and a marker of another type, and a cell saved above it has left the
\* trail.
SentinelSymmetryWitness ==
  /\ g_last.op = "BacktrackToSentinel"
  /\ g_last.popped
  /\ g_last.code = INITIAL_SEARCH_SENTINEL
  /\ SENTINEL \in g_last.above
  /\ g_last.above \cap {SIMPLE_MARKER, CHOICE_POINT, REVERSIBLE_ACTION} # {}
  /\ g_last.undone > 0

\* ------------------------------------------ claims on the stamp of the queue
\* C14 as stated: the stamp of the queue never decreases, and every call of
\* Freeze and every call of Unfreeze increases it (a step that changes the
\* freeze level is the call of one of the two).
QueueStampAsStated ==
  [][ /\ solver'.queue_.stamp_ >= solver.queue_.stamp_
      /\ solver'.queue_.freeze_level_ # solver.queue_.freeze_level_ =>
           solver'.queue_.stamp_ > solver.queue_.stamp_ ]_vars

\* C14: the stamp of the queue never decreases; every call of Freeze
\* increases it by one, and a call of Unfreeze leaves it as it is.
QueueStamp ==
  [][ /\ solver'.queue_.stamp_ >= solver.queue_.stamp_
      /\ solver'.queue_.freeze_level_ = solver.queue_.freeze_level_ + 1 =>
           solver'.queue_.stamp_ = solver.queue_.stamp_ + 1
      /\ solver'.queue_.freeze_level_ = solver.queue_.freeze_level_ - 1 =>
           solver'.queue_.stamp_ = solver.queue_.stamp_ ]_vars

\* Freeze and Unfreeze have both been called: the stamp has increased and
\* the queue is not frozen any more.
QueueStampWitness ==
  /\ solver.queue_.stamp_ > NewSolver(parameters).queue_.stamp_
  /\ solver.queue_.freeze_level_ = 0

\* ------------------------------- specification: the pending entries of a demon
\* The callers of SpecQueue, which also push and pop simple markers.  For
\* every demon the history counts the increments of the stamp of the queue
\* since the demon became pending.
PendingInit ==
  /\ parameters \in [trail_block_size : {1}, compress_trail : {NO_COMPRESSION}]
  /\ solver = [NewSolver(parameters) EXCEPT
                 !.demons_ = [d \in Demons |-> IF d = 1 THEN NORMAL_PRIORITY
                                               ELSE IF d = 2 THEN VAR_PRIORITY
                                               ELSE DELAYED_PRIORITY]]
  /\ stack = <<>>
  /\ g_last = NoDispatch
  /\ g_window = NoWindow
  /\ g_order = [p \in Priorities |-> <<>>]
  /\ g_snap = [d \in Demons |-> 0]
  /\ g_search = <<>>
  /\ cts = <<>>
  /\ ref = <<>>

\* The stamp of the queue has increased: it is counted for the demons that
\* are pending.
StampIncreased ==
  /\ g_snap' = [d \in Demons |-> IF PendingCount(solver, d) > 0
                                 THEN g_snap[d] + 1 ELSE g_snap[d]]
  /\ g_window' = NoWindow
  /\ g_last' = NoDispatch

\* Solver::Enqueue(d) by the caller.
PEnqueue ==
  \E d \in Demons :
    /\ InCaller
    /\ TotalRuns(solver) + TotalPending(solver) < MaxPendingRuns
    /\ \E r \in {IF Accepts(solver, d)
                 THEN ProcessIfUnfrozen(Enqueue(solver, d), stack)
                 ELSE [S |-> Enqueue(solver, d), stack |-> stack]} :
          /\ solver' = r.S
          /\ stack' = r.stack
          /\ g_order' = IF Accepts(solver, d)
                        THEN [g_order EXCEPT ![priority(solver, d)] = Append(@, d)]
                        ELSE g_order
          /\ g_window' = IF Accepts(solver, d)
                         THEN [g_window EXCEPT ![d].accepted = @ + 1]
                         ELSE g_window
          /\ g_snap' = IF Accepts(solver, d) /\ PendingCount(solver, d) = 0
                       THEN [g_snap EXCEPT ![d] = 0]
                       ELSE g_snap
    /\ g_last' = NoDispatch
    /\ UNCHANGED <<g_search, parameters, cts, ref>>

\* Solver::FreezeQueue() by the caller.
PFreeze ==
  /\ InCaller
  /\ solver.queue_.stamp_ < MaxPendingStamp
  /\ solver' = Freeze(solver)
  /\ StampIncreased
  /\ UNCHANGED <<g_search, parameters, cts, ref, stack, g_order>>

\* Solver::PushState() by the caller: a simple marker.
PPushState ==
  /\ InCaller
  /\ solver.queue_.stamp_ < MaxPendingStamp
  /\ solver' = PushState(solver, SIMPLE_MARKER, StateInfo(0, 0, 0, 0))
  /\ StampIncreased
  /\ UNCHANGED <<g_search, parameters, cts, ref, stack, g_order>>

\* Solver::PopState() by the caller, of a simple marker.
PPopState ==
  /\ InCaller
  /\ TopMarker(solver).type_ = SIMPLE_MARKER
  /\ solver' = PopState(solver)
  /\ StampIncreased
  /\ UNCHANGED <<g_search, parameters, cts, ref, stack, g_order>>

PendingNext ==
  \/ PEnqueue
  \/ PFreeze
  \/ QUnfreeze
  \/ PPushState
  \/ PPopState
  \/ QRunReturns
  \/ ProcessOuter
  \/ ProcessInner
  \/ ProcessNormal
  \/ ProcessVar
  \/ ProcessDelayed

SpecPending == PendingInit /\ [][PendingNext]_vars

\* C15 as stated: in every reachable state each demon has at most one
\* pending entry across the three queues.
SinglePendingEntryAsStated ==
  \A d \in Demons : PendingCount(solver, d) <= 1

\* C15: each demon has at most one pending entry more than the stamp of
\* the queue has been increased (by Freeze, PushState or PopState) since
\* the demon became pending: one entry when the stamp has not increased.
SinglePendingEntry ==
  \A d \in Demons : PendingCount(solver, d) <= 1 + g_snap[d]

\* A demon is pending twice, after one increment of the stamp while it was
\* pending, and a further Enqueue on it is ignored.
SinglePendingEntryWitness ==
  \E d \in Demons :
    /\ PendingCount(solver, d) = 2
    /\ g_snap[d] = 1
    /\ ~Accepts(solver, d)
    /\ Len(MarkerStack(solver)) > 1

\* -------------------------------------- specification: failure and the queue
\* The callers of SpecQueue, in a search: they also register the action on
\* failure, add constraints through the queue, and fail.  The code of a
\* constraint being posted is a caller as well.
PostFrame(counter) == [kind |-> "Post", pc |-> counter, demon |-> 0]

\* The action on failure: it counts its runs at this address.
FailActionAddr == 4

\* What a failure finds: the action registered and the runs it has counted,
\* the demons pending, the constraints waiting, the freeze level and the
\* flags.
Failure(S) ==
  [ op |-> "AfterFailure", action |-> S.queue_.clear_action_,
    runs |-> S.memory[FailActionAddr], pending |-> TotalPending(S),
    to_add |-> Len(S.queue_.to_add_), freeze_level |-> S.queue_.freeze_level_,
    in_process |-> S.queue_.in_process_, in_add |-> S.queue_.in_add_ ]

FailureInit ==
  /\ parameters \in [trail_block_size : {1}, compress_trail : {NO_COMPRESSION}]
  /\ solver = [NewSolver(parameters) EXCEPT
                 !.demons_ = [d \in Demons |-> IF d = 1 THEN NORMAL_PRIORITY
                                               ELSE IF d = 2 THEN VAR_PRIORITY
                                               ELSE DELAYED_PRIORITY]]
  /\ stack = <<>>
  /\ g_last = NoDispatch
  /\ g_window = NoWindow
  /\ g_order = [p \in Priorities |-> <<>>]
  /\ g_snap = [d \in Demons |-> 0]
  /\ g_search = <<>>
  /\ cts = <<>>
  /\ ref = <<>>

\* Solver::Enqueue(d) by the caller.
FEnqueue ==
  \E d \in Demons :
    /\ InCaller
    /\ TotalRuns(solver) + TotalPending(solver) < MaxPendingRuns
    /\ \E r \in {IF Accepts(solver, d)
                 THEN ProcessIfUnfrozen(Enqueue(solver, d), stack)
                 ELSE [S |-> Enqueue(solver, d), stack |-> stack]} :
          /\ solver' = r.S
          /\ stack' = r.stack
          /\ g_order' = IF Accepts(solver, d)
                        THEN [g_order EXCEPT ![priority(solver, d)] = Append(@, d)]
                        ELSE g_order
    /\ g_last' = NoDispatch
    /\ UNCHANGED <<g_search, parameters, cts, ref, g_snap, g_window>>

\* Solver::FreezeQueue() by the caller, once.
FFreeze ==
  /\ InCaller
  /\ solver.queue_.stamp_ = NewSolver(parameters).queue_.stamp_
  /\ solver' = Freeze(solver)
  /\ g_last' = NoDispatch
  /\ UNCHANGED <<g_search, parameters, cts, ref, g_snap, stack, g_order, g_window>>

\* Solver::set_queue_action_on_fail(a).
FSetActionOnFail ==
  /\ InCaller
  /\ solver.queue_.clear_action_ = 0
  /\ solver' = [solver EXCEPT !.queue_.clear_action_ = FailActionAddr]
  /\ g_last' = NoDispatch
  /\ UNCHANGED <<parameters, cts, ref, stack, g_snap, g_window, g_order, g_search>>

\* Queue::AddConstraint(c): to_add_.push_back(c) and ProcessConstraints(),
\* which calls PostAndPropagate() of the first constraint unless a call of
\* ProcessConstraints() is going on.
FAddConstraint ==
  /\ InCaller
  /\ solver.queue_.to_add_ = <<>>
  /\ IF solver.queue_.in_add_
     THEN /\ solver' = [solver EXCEPT !.queue_.to_add_ = Append(@, Equality(1))]
          /\ UNCHANGED stack
     ELSE /\ solver' = [solver EXCEPT !.queue_.to_add_ = Append(@, Equality(1)),
                                      !.queue_.in_add_ = TRUE]
          /\ stack' = Append(stack, PostFrame(0))
  /\ g_last' = NoDispatch
  /\ UNCHANGED <<parameters, cts, ref, g_snap, g_window, g_order, g_search>>

\* Queue::ProcessConstraints(): PostAndPropagate() of to_add_[counter]
\* returns; the next constraint is posted, or the loop ends.
FPostReturns ==
  /\ stack # <<>>
  /\ IF stack = <<>> THEN FALSE ELSE Top(stack).kind = "Post"
  /\ IF Top(stack).pc + 1 < Len(solver.queue_.to_add_)
     THEN /\ stack' = SetPc(stack, Top(stack).pc + 1)
          /\ UNCHANGED solver
     ELSE /\ stack' = Pop(stack)
          /\ solver' = [solver EXCEPT !.queue_.in_add_ = FALSE,
                                      !.queue_.to_add_ = <<>>]
  /\ g_last' = NoDispatch
  /\ UNCHANGED <<parameters, cts, ref, g_snap, g_window, g_order, g_search>>

\* Solver::Fail() by a caller inside a try-region of NextSolution(): the
\* control goes to CP_ON_FAIL, which calls queue_->AfterFailure().
FFail ==
  /\ InCaller
  /\ solver.fails_ < MaxFails
  /\ solver' = AfterFailure([solver EXCEPT !.fails_ = @ + 1])
  /\ stack' = <<>>
  /\ g_last' = Failure(solver)
  /\ g_order' = [p \in Priorities |-> <<>>]
  /\ g_window' = NoWindow
  /\ UNCHANGED <<parameters, cts, ref, g_snap, g_search>>

FailureNext ==
  \/ FEnqueue
  \/ FFreeze
  \/ QUnfreeze
  \/ QRunReturns
  \/ ProcessOuter
  \/ ProcessInner
  \/ ProcessNormal
  \/ ProcessVar
  \/ ProcessDelayed
  \/ FSetActionOnFail
  \/ FAddConstraint
  \/ FPostReturns
  \/ FFail

SpecFailure == FailureInit /\ [][FailureNext]_vars

\* C16: after Queue::AfterFailure() the three queues and the list of the
\* constraints to add are empty, the freeze level is 0, in_process_ and
\* in_add_ are false, the action registered on failure has been run once
\* and is not registered any more; with no action registered none is run.
AfterFailurePostcondition ==
  g_last.op = "AfterFailure" =>
    /\ \A p \in Priorities : Empty(solver.queue_.containers_[p])
    /\ TotalPending(solver) = 0
    /\ solver.queue_.to_add_ = <<>>
    /\ solver.queue_.freeze_level_ = 0
    /\ ~solver.queue_.in_process_
    /\ ~solver.queue_.in_add_
    /\ solver.queue_.clear_action_ = 0
    /\ solver.memory[FailActionAddr] =
         g_last.runs + (IF g_last.action # 0 THEN 1 ELSE 0)

\* A second failure, with the action not registered again, has found a
\* demon running, a demon pending on a frozen queue and a constraint being
\* posted; the action has run once, at the first failure.
AfterFailureWitness ==
  /\ g_last.op = "AfterFailure"
  /\ g_last.action = 0
  /\ g_last.runs = 1
  /\ solver.fails_ = 2
  /\ g_last.pending > 0
  /\ g_last.to_add > 0
  /\ g_last.freeze_level > 0
  /\ g_last.in_process
  /\ g_last.in_add

\* --------------------------- specification: a failure outside a try-region
\* The client of SpecSearch, which also calls Fail() between two calls of
\* the solver, once; the searches it opens are counted from that call on.
OutsideInit ==
  /\ SearchInit
  /\ parameters.nogood = {}
  /\ parameters.finish = {}

\* The false constraint is a constraint of the model.
FalsePosted(S) ==
  \E i \in 1..Len(S.constraints_list_) : AlwaysFails(S.constraints_list_[i])

\* Fail() called by the client: no try-region is armed.
CFail ==
  /\ AtClient
  /\ ~FalsePosted(solver)
  /\ solver' = Fail(solver)
  /\ g_last' = [op |-> "Fail", result |-> FALSE, root_failed |-> FALSE,
                before |-> solver]
  /\ g_search' = NoSearch
  /\ UNCHANGED <<parameters, cts, ref, stack, g_snap, g_window, g_order>>

OutsideNext ==
  \/ CNewSearch
  \/ CNextSolution
  \/ CEndSearch
  \/ CSolve
  \/ CFail
  \/ SolveReturns
  \/ NSEntry
  \/ NSRoot
  \/ NSRootFail
  \/ NSLoop
  \/ NSNext
  \/ NSLeaf
  \/ NSOnFail
  \/ NSReturn

SpecOutside == OutsideInit /\ [][OutsideNext]_vars

InSearch(S) == S.state_ = IN_SEARCH \/ S.state_ = IN_ROOT_NODE

\* NewSearch(db, monitor) called by a callback of NextSolution().
MNewSearch ==
  /\ stack # <<>>
  /\ ~solver.abort_
  /\ InSearch(solver)
  /\ solver' = NewSearch(solver)
  /\ g_last' = [op |-> "NewSearch", result |-> FALSE, root_failed |-> FALSE,
                before |-> solver]
  /\ UNCHANGED <<parameters, cts, ref, stack, g_snap, g_search, g_window,
                 g_order>>

MisuseNext ==
  \/ CNewSearch
  \/ CNextSolution
  \/ CEndSearch
  \/ CSolve
  \/ MNewSearch
  \/ SolveReturns
  \/ NSEntry
  \/ NSRoot
  \/ NSRootFail
  \/ NSLoop
  \/ NSNext
  \/ NSLeaf
  \/ NSOnFail
  \/ NSReturn

SpecMisuse == SearchInit /\ [][MisuseNext]_vars

\* C18: NewSearch() called while the state is IN_SEARCH or IN_ROOT_NODE ends
\* in a fatal error, and nothing but that has happened: the markers, the
\* trail, the monitors and the state of the solver are those of the call.
NewSearchMisuse ==
  g_last.op = "NewSearch" /\ InSearch(g_last.before) =>
    /\ solver.abort_
    /\ solver = Abort(g_last.before)
    /\ MarkerStack(solver) = MarkerStack(g_last.before)
    /\ ActiveSearch(solver).monitors_ = ActiveSearch(g_last.before).monitors_
    /\ solver.state_ = g_last.before.state_

\* NewSearch() has been called in the search tree, below a decision, with
\* markers above the sentinel of the search.
NewSearchMisuseWitness ==
  /\ g_last.op = "NewSearch"
  /\ g_last.before.state_ = IN_SEARCH
  /\ solver.abort_
  /\ \E i \in 1..Len(MarkerStack(g_last.before)) :
        /\ MarkerStack(g_last.before)[i].type_ = SENTINEL
        /\ MarkerStack(g_last.before)[i].info_.int_info =
              INITIAL_SEARCH_SENTINEL
        /\ i + 1 < Len(MarkerStack(g_last.before))

\* ------------------------------------------- specification: inhibited demons
\* kuint64max, the stamp of an inhibited demon: no stamp of the queue of a
\* model reaches it.
kuint64max == 2147483647

\* Solver::SaveAndSetValue(adr, val): the location is saved, then written.
SaveAndSetValue(S, adr, val) ==
  IF S.memory[adr] # val
  THEN [InternalSaveValue(S, adr) EXCEPT !.memory[adr] = val]
  ELSE S

\* Demon::inhibit(s).
inhibit(S, d) ==
  IF stamp(S, d) < kuint64max
  THEN SaveAndSetValue(S, StampAddr(d), kuint64max)
  ELSE S

\* Demon::desinhibit(s).
desinhibit(S, d) ==
  IF stamp(S, d) = kuint64max
  THEN SaveAndSetValue(S, StampAddr(d), S.queue_.stamp_ - 1)
  ELSE S

\* The history of a demon: whether inhibit(d) has been called with no
\* desinhibit(d) and no backtrack past it since, the markers on the stack
\* when it was called, and whether d was pending then.
NotInhibited == [inhibited |-> FALSE, depth |-> 0, pending |-> FALSE]

InhibitInit ==
  /\ parameters \in [trail_block_size : {1}, compress_trail : {NO_COMPRESSION}]
  /\ solver = [NewSolver(parameters) EXCEPT
                 !.demons_ = [d \in Demons |-> IF d = 1 THEN NORMAL_PRIORITY
                                               ELSE IF d = 2 THEN VAR_PRIORITY
                                               ELSE DELAYED_PRIORITY]]
  /\ stack = <<>>
  /\ g_last = NoDispatch
  /\ g_window = NoWindow
  /\ g_order = [p \in Priorities |-> <<>>]
  /\ g_snap = [d \in Demons |-> NotInhibited]
  /\ g_search = <<>>
  /\ cts = <<>>
  /\ ref = <<>>

\* d->inhibit(solver) by the caller, of one demon at a time and with nothing
\* saved on the trail.
IInhibit ==
  \E d \in Demons :
    /\ InCaller
    /\ \A e \in Demons : ~g_snap[e].inhibited
    /\ TrailCells(solver) = 0
    /\ solver' = inhibit(solver, d)
    /\ g_snap' = [g_snap EXCEPT
                    ![d] = [inhibited |-> TRUE,
                            depth |-> Len(MarkerStack(solver)),
                            pending |-> PendingCount(solver, d) > 0]]
    /\ g_last' = NoDispatch
    /\ UNCHANGED <<g_search, parameters, cts, ref, stack, g_order, g_window>>

\* d->desinhibit(solver) by the caller.
IDesinhibit ==
  \E d \in Demons :
    /\ InCaller
    /\ g_snap[d].inhibited
    /\ solver' = desinhibit(solver, d)
    /\ g_snap' = [g_snap EXCEPT ![d] = NotInhibited]
    /\ g_last' = NoDispatch
    /\ UNCHANGED <<g_search, parameters, cts, ref, stack, g_order, g_window>>

\* Solver::PushState() by the caller, before any demon is enqueued: a simple
\* marker above the sentinel of the constructor.
IPushState ==
  /\ InCaller
  /\ solver.queue_.stamp_ < MaxPendingStamp
  /\ Len(MarkerStack(solver)) = 1
  /\ TotalRuns(solver) + TotalPending(solver) = 0
  /\ solver' = PushState(solver, SIMPLE_MARKER, StateInfo(0, 0, 0, 0))
  /\ g_last' = NoDispatch
  /\ UNCHANGED <<g_search, parameters, cts, ref, g_snap, stack, g_order, g_window>>

\* Solver::PopState() by the caller, of a simple marker: the solver
\* backtracks past the inhibit() calls made above the marker.
IPopState ==
  /\ InCaller
  /\ TopMarker(solver).type_ = SIMPLE_MARKER
  /\ solver' = PopState(solver)
  /\ g_snap' = [d \in Demons |->
                  IF g_snap[d].inhibited
                     /\ Len(MarkerStack(solver)) - 1 < g_snap[d].depth
                  THEN NotInhibited
                  ELSE g_snap[d]]
  /\ g_last' = NoDispatch
  /\ UNCHANGED <<g_search, parameters, cts, ref, stack, g_order, g_window>>

InhibitNext ==
  \/ FEnqueue
  \/ FFreeze
  \/ QUnfreeze
  \/ IPushState
  \/ IPopState
  \/ IInhibit
  \/ IDesinhibit
  \/ QRunReturns
  \/ ProcessOuter
  \/ ProcessInner
  \/ ProcessNormal
  \/ ProcessVar
  \/ ProcessDelayed

SpecInhibit == InhibitInit /\ [][InhibitNext]_vars

\* C19 as stated: after inhibit(d) the queue does not dispatch d until
\* desinhibit(d) is called or the solver backtracks past the inhibit.
InhibitionAsStated ==
  g_last.op = "dispatch" => ~g_snap[g_last.demon].inhibited

\* The queue has dispatched a demon between its inhibit() and any
\* desinhibit() or backtrack, and the stamp of the demon is no longer
\* kuint64max.
InhibitionLostWitness ==
  /\ g_last.op = "dispatch"
  /\ g_snap[g_last.demon].inhibited
  /\ g_snap[g_last.demon].pending
  /\ stamp(solver, g_last.demon) = solver.queue_.stamp_ - 1

\* ------------------------------------------- specification: nested searches
\* Solver::ParentSearch().
ParentSearch(S) == S.searches_[Len(S.searches_) - 1]

\* The reversible-action markers of a marker stack, from its top down.
RECURSIVE ActionsFromTop(_)
ActionsFromTop(ms) ==
  IF ms = <<>> THEN <<>>
  ELSE IF ms[Len(ms)].type_ = REVERSIBLE_ACTION
       THEN <<ms[Len(ms)]>> \o ActionsFromTop(SubSeq(ms, 1, Len(ms) - 1))
       ELSE ActionsFromTop(SubSeq(ms, 1, Len(ms) - 1))

MutJumpDropsActions(S_) ==
  Only({(
    [S EXCEPT !.searches_[Back_(S)].marker_stack_ = <<>>,
              !.searches_[Back_(S)].search_depth_ = 0,
              !.searches_[Back_(S)].left_search_depth_ = 0]
  ) : S \in {S_}})

\* Solver::JumpToSentinelWhenNested(): the markers of the search are
\* dropped without a backtrack, but the reversible actions, which go to the
\* parent search.
JumpToSentinelWhenNested(S_) ==
  Only({(
    LET ms == MarkerStack(S)
    IN IF SolveDepth(S) <= 1
       THEN Abort(S)
       ELSE IF \/ \E i \in 2..Len(ms) : ms[i].type_ = SENTINEL
               \/ ~\E i \in 1..Len(ms) : ms[i].type_ = SENTINEL
            THEN Abort(S)
            ELSE [S EXCEPT
                    !.searches_[Back_(S) - 1].marker_stack_ =
                       @ \o ActionsFromTop(ms),
                    !.searches_[Back_(S)].marker_stack_ = <<>>,
                    !.searches_[Back_(S)].search_depth_ = 0,
                    !.searches_[Back_(S)].left_search_depth_ = 0]
  ) : S \in {S_}})

\* Solver::NestedSolve(db, restore, monitors, size), up to its call of
\* NextSolution(): the new search with its monitors, its sentinel and its
\* decision builder.
NestedSolveCall(S_) ==
  Only({(
    [PushSentinel(
       [S EXCEPT !.searches_ =
          Append(@, [NewSearch0 EXCEPT
                       !.monitors_ = <<PropagationMonitor, ClientMonitor,
                                       SecondMonitor>>,
                       !.created_by_solve_ = TRUE])],
       INITIAL_SEARCH_SENTINEL)
     EXCEPT !.searches_[Len(S.searches_) + 1].decision_builder_ = 1]
  ) : S \in {S_}})

MutNestedSolveNeverRestores(S_, res, restore) ==
  Only({(
    [Clear(IF res THEN JumpToSentinelWhenNested(S) ELSE S)
       EXCEPT !.searches_ = SubSeq(@, 1, Len(@) - 1)]
  ) : S \in {S_}})

\* Solver::NestedSolve after NextSolution() has returned res: the restore or
\* the jump, ExitSearch, Clear and searches_.pop_back().
NestedSolveReturn(S_, res, restore) ==
  Only({(
    [Clear(IF res
           THEN IF restore
                THEN BacktrackToSentinel(S, INITIAL_SEARCH_SENTINEL)
                ELSE JumpToSentinelWhenNested(S)
           ELSE S)
       EXCEPT !.searches_ = SubSeq(@, 1, Len(@) - 1)]
  ) : S \in {S_}})

\* The frame of NestedSolve(db, restore), with the solver of the call.
NestedFrame(restore, before) ==
  [kind |-> "NestedSolve", pc |-> "call", restore |-> restore,
   before |-> before]

NestedInit ==
  /\ parameters \in SearchParameters
  /\ solver = AddConstraints(NewSolver(parameters), parameters.constraints)
  /\ stack = <<>>
  /\ g_last = NoReturn
  /\ g_search = NoSearch
  /\ g_snap = <<>>
  /\ g_window = [nested |-> FALSE]
  /\ g_order = <<>>
  /\ cts = <<>>
  /\ ref = <<>>

\* NestedSolve(db, restore, monitors) called by the decision builder of a
\* Solve() of the client, in Next(), once.
NNestedSolve ==
  \E restore \in BOOLEAN :
    /\ InNextSolution("next")
    /\ Len(solver.searches_) = 2
    /\ ~g_window.nested
    /\ solver' = NestedSolveCall(solver)
    /\ stack' = stack \o <<NestedFrame(restore, solver),
                           NextSolutionFrame("entry", 0, FALSE, FALSE, FALSE)>>
    /\ g_window' = [nested |-> TRUE]
    /\ g_last' = NoReturn
    /\ UNCHANGED <<parameters, cts, ref, g_snap, g_search, g_order>>

\* NestedSolve(): NextSolution() has returned, and NestedSolve returns to
\* the decision builder.
NNestedSolveReturns ==
  /\ InFrame("NestedSolve", "returned")
  /\ ~solver.abort_
  /\ solver' = NestedSolveReturn(solver, g_last.result, Top(stack).restore)
  /\ stack' = Pop(stack)
  /\ g_last' = [op |-> "NestedSolve", result |-> g_last.result,
                root_failed |-> FALSE, restore |-> Top(stack).restore,
                before |-> Top(stack).before]
  /\ UNCHANGED <<parameters, cts, ref, g_snap, g_search, g_window, g_order>>

NestedNext ==
  \/ CSolve
  \/ SolveReturns
  \/ NNestedSolve
  \/ NNestedSolveReturns
  \/ NSEntry
  \/ NSRoot
  \/ NSRootFail
  \/ NSLoop
  \/ NSNext
  \/ NSLeaf
  \/ NSOnFail
  \/ NSReturn

SpecNested == NestedInit /\ [][NestedNext]_vars

\* C20: when NestedSolve() returns false, or true with restore, every kind
\* of the trail has the length it had at the call and the memory is the
\* memory of the call; in every case the nested search has been popped: the
\* searches are as many as at the call.
NestedSearchUndone ==
  g_last.op = "NestedSolve" =>
    /\ Len(solver.searches_) = Len(g_last.before.searches_)
    /\ ~g_last.result \/ g_last.restore =>
         /\ Lengths(solver.trail_) = Lengths(g_last.before.trail_)
         /\ solver.memory = g_last.before.memory

\* NestedSolve() has returned false after decisions of the nested search
\* have written the memory.
NestedSearchUndoneWitness ==
  /\ g_last.op = "NestedSolve"
  /\ ~g_last.result
  /\ ~solver.abort_
  /\ solver.decisions_ > g_last.before.decisions_
  /\ solver.fails_ > g_last.before.fails_

\* ----------------------------- specification: the failures of NextSolution
\* Solve() of the client, with the CP_ON_FAIL blocks of NextSolution() run
\* statement by statement: queue_->AfterFailure() first, the rest after, and
\* a propagation that registers an action on fail.
AtPc(stk, pcs) ==
  IF stk = <<>> THEN FALSE
  ELSE Top(stk).kind = "NextSolution" /\ Top(stk).pc \in pcs

\* Solver::set_queue_action_on_fail(a), called in the root node or below a
\* decision.
OSetActionOnFail ==
  /\ InNextSolution("next") \/ InNextSolution("root")
  /\ solver.queue_.clear_action_ = 0
  /\ solver' = [solver EXCEPT !.queue_.clear_action_ = FailActionAddr]
  /\ g_last' = NoReturn
  /\ UNCHANGED <<parameters, cts, ref, stack, g_snap, g_window, g_order,
                 g_search>>

MutBacktrackBeforeAfterFailure ==
  /\ InNextSolution("fail") \/ InNextSolution("root_fail")
  /\ solver' = AfterFailure(PopState(solver))
  /\ stack' = SetPc(stack, IF Top(stack).pc = "fail" THEN "failed"
                           ELSE "root_failed")
  /\ g_last' = NoReturn
  /\ UNCHANGED <<parameters, cts, ref, g_snap, g_window, g_order, g_search>>

\* CP_ON_FAIL of the root node and of the loop: queue_->AfterFailure().
OAfterFailure ==
  /\ InNextSolution("fail") \/ InNextSolution("root_fail")
  /\ solver' = AfterFailure(solver)
  /\ stack' = SetPc(stack, IF Top(stack).pc = "fail" THEN "failed"
                           ELSE "root_failed")
  /\ g_last' = NoReturn
  /\ UNCHANGED <<parameters, cts, ref, g_snap, g_window, g_order, g_search>>

\* CP_ON_FAIL of the loop after AfterFailure(): should_finish,
\* should_restart or BacktrackOneLevel.
OOnFail ==
  /\ InNextSolution("failed")
  /\ \E f \in {Top(stack)},
        r \in {Handler(solver, Top(stack).fd,
                       IF Top(stack).top_level THEN ROOT_NODE_SENTINEL
                       ELSE INITIAL_SEARCH_SENTINEL)} :
        /\ solver' = r.S
        /\ GoOn("loop", r.fd, r.finish, IF r.finish THEN FALSE ELSE f.result)
  /\ g_last' = NoReturn
  /\ UNCHANGED <<parameters, cts, ref, g_snap, g_search, g_window, g_order>>

\* CP_ON_FAIL of the root node after AfterFailure(): BacktrackToSentinel,
\* PROBLEM_INFEASIBLE and the return.
ORootFail ==
  /\ InNextSolution("root_failed")
  /\ solver' = [BacktrackToSentinel(solver, INITIAL_SEARCH_SENTINEL)
                  EXCEPT !.state_ = PROBLEM_INFEASIBLE]
  /\ Return(FALSE, TRUE)
  /\ UNCHANGED <<parameters, cts, ref, g_snap, g_search, g_window, g_order>>

OnFailNext ==
  \/ CSolve
  \/ SolveReturns
  \/ OSetActionOnFail
  \/ OAfterFailure
  \/ OOnFail
  \/ ORootFail
  \/ NSEntry
  \/ NSRoot
  \/ NSLoop
  \/ NSNext
  \/ NSLeaf
  \/ NSReturn

SpecOnFail == SearchInit /\ [][OnFailNext]_vars

\* The queue after AfterFailure(): nothing pending, nothing waiting, not
\* frozen, no action on fail.
QueueCleared(S) ==
  /\ \A p \in Priorities : Empty(S.queue_.containers_[p])
  /\ S.queue_.to_add_ = <<>>
  /\ S.queue_.freeze_level_ = 0
  /\ ~S.queue_.in_process_
  /\ ~S.queue_.in_add_
  /\ S.queue_.clear_action_ = 0

\* C21: the first step NextSolution() takes after it has caught a failure,
\* in the root node or in the loop, is AfterFailure(): the action on fail
\* runs once if one is registered, the queue is cleared, and no marker is
\* popped, no cell of the trail is undone and no decision is taken in that
\* step.  The steps that follow, up to the next try-region, leave the queue
\* and the runs of the action as they are.
AfterFailureOncePerFailure ==
  [][ /\ AtPc(stack, {"fail", "root_fail"}) /\ ~solver.abort_ =>
           /\ AtPc(stack', {"failed", "root_failed"})
           /\ QueueCleared(solver')
           /\ solver'.memory[FailActionAddr] =
                solver.memory[FailActionAddr]
                + (IF solver.queue_.clear_action_ # 0 THEN 1 ELSE 0)
           /\ solver'.searches_ = solver.searches_
           /\ solver'.trail_ = solver.trail_
           /\ solver'.decisions_ = solver.decisions_
           /\ solver'.branches_ = solver.branches_
      /\ AtPc(stack, {"failed", "root_failed"}) /\ ~solver.abort_ =>
           /\ solver'.queue_ = [solver.queue_ EXCEPT
                                  !.stamp_ = solver'.queue_.stamp_]
           /\ solver'.memory[FailActionAddr] = solver.memory[FailActionAddr]
           /\ solver'.decisions_ = solver.decisions_
           /\ solver'.branches_ = solver.branches_ ]_vars

\* AfterFailure() has run for the second failure of a search, with an
\* action on fail registered each time, and the choice point of the failed
\* branch is still on the stack.
AfterFailureOncePerFailureWitness ==
  /\ AtPc(stack, {"failed"})
  /\ solver.fails_ >= 2
  /\ solver.memory[FailActionAddr] = 2
  /\ QueueCleared(solver)
  /\ TopMarker(solver).type_ = CHOICE_POINT

\* ---------------------------------- specification: the choice points
\* Solve() of the client, with a decision builder that registers
\* reversible actions.
\* Solver::AddBacktrackAction(a, fast) called by the decision builder, one
\* action on the markers at a time.
KAddBacktrackAction ==
  /\ InNextSolution("next")
  /\ \A i \in 1..Len(MarkerStack(solver)) :
        MarkerStack(solver)[i].type_ # REVERSIBLE_ACTION
  /\ \E fast \in BOOLEAN :
        solver' = AddBacktrackAction(solver, ActionAddr, fast)
  /\ g_last' = NoReturn
  /\ UNCHANGED <<parameters, cts, ref, stack, g_snap, g_window, g_order,
                 g_search>>

ChoiceNext ==
  \/ CSolve
  \/ SolveReturns
  \/ KAddBacktrackAction
  \/ NSEntry
  \/ NSRoot
  \/ NSRootFail
  \/ NSLoop
  \/ NSNext
  \/ NSLeaf
  \/ NSOnFail
  \/ NSReturn

SpecChoice == SearchInit /\ [][ChoiceNext]_vars

\* The markers at which BacktrackOneLevel stops: a sentinel or an open
\* choice point (tag 0), and the topmost of them in a marker stack.
Stops(m) ==
  m.type_ = SENTINEL \/ (m.type_ = CHOICE_POINT /\ m.info_.int_info = 0)
TopStop(ms) ==
  CHOOSE k \in 1..Len(ms) :
    Stops(ms[k]) /\ \A j \in (k + 1)..Len(ms) : ~Stops(ms[j])
ActionsAbove(ms, k) ==
  Cardinality({j \in (k + 1)..Len(ms) : ms[j].type_ = REVERSIBLE_ACTION})

\* The step in which fd->Refute() runs: a branch is counted and no decision.
RefuteRuns ==
  /\ solver'.branches_ = solver.branches_ + 1
  /\ solver'.decisions_ = solver.decisions_

\* C22: BacktrackOneLevel pops the markers down to and including the
\* topmost open choice point or sentinel: the closed choice points above it
\* are dropped and every reversible action above it is run; it hands the
\* decision of the open choice point to the loop, or ends the search at a
\* sentinel.  Refute(d) runs only for the decision handed over, when the
\* variables from d on are unbound again, after Apply(d) has run below the
\* same node and not after an earlier Refute(d) there, and it leaves a
\* choice point tagged 1 with d on top of the markers.
ChoicePointProtocol ==
  [][ /\ AtPc(stack, {"fail"}) /\ ~CheckFail(solver) /\ ~solver.abort_ =>
           LET ms == MarkerStack(solver)
               k == TopStop(ms)
           IN /\ MarkerStack(solver') = SubSeq(ms, 1, k - 1)
              /\ solver'.memory[ActionAddr] =
                   solver.memory[ActionAddr] + ActionsAbove(ms, k)
              /\ IF ms[k].type_ = CHOICE_POINT
                 THEN /\ Top(stack').fd = ms[k].info_.ptr_info
                      /\ ~Top(stack').finish
                 ELSE Top(stack').finish
      /\ RefuteRuns =>
           /\ AtPc(stack, {"loop"})
           /\ Top(stack).fd # 0
           /\ Len(CurrentPath(solver)) = Top(stack).fd - 1
           /\ Append(CurrentPath(solver), 1) \in g_search.visited
           /\ Append(CurrentPath(solver), 2) \notin g_search.visited
           /\ Len(MarkerStack(solver')) = Len(MarkerStack(solver)) + 1
           /\ TopMarker(solver').type_ = CHOICE_POINT
           /\ TopMarker(solver').info_.int_info = 1
           /\ TopMarker(solver').info_.ptr_info = Top(stack).fd ]_vars

\* BacktrackOneLevel has popped a closed choice point and run a reversible
\* action on its way to an open choice point, and Refute() of the decision
\* of that choice point has run.
ChoicePointProtocolWitness ==
  /\ AtPc(stack, {"next", "fail"})
  /\ TopMarker(solver).type_ = CHOICE_POINT
  /\ TopMarker(solver).info_.int_info = 1
  /\ TopMarker(solver).info_.ptr_info = 1
  /\ solver.memory[ActionAddr] > 0
  /\ <<1, 2>> \in g_search.visited
  /\ solver.branches_ > solver.decisions_

\* ------------------------------------ specification: requests of monitors
\* The client of SpecSearch, with a monitor that calls FinishCurrentSearch()
\* in its callbacks, alone or after RestartCurrentSearch().
\* The callbacks of NextSolution() in which no CheckFail() follows before
\* the next step of the model: BeginInitialPropagation (root),
\* BeginNextDecision (next), AcceptSolution and AtSolution (leaf),
\* BeginFail (fail); and EndFail, when BacktrackOneLevel has found a
\* decision to refute.
CallbackPcs == {"root", "next", "leaf", "fail"}
InCallback ==
  \/ AtPc(stack, CallbackPcs)
  \/ AtPc(stack, {"loop"}) /\ Top(stack).fd # 0

\* SearchMonitor::FinishCurrentSearch(), after RestartCurrentSearch() or
\* not, called by a monitor of the active search in a callback.
MFinishCurrentSearch ==
  /\ InCallback
  /\ ~solver.abort_
  /\ ~ActiveSearch(solver).should_finish_
  /\ \E restart \in BOOLEAN :
        solver' = [solver EXCEPT
                     !.searches_[Back_(solver)].should_finish_ = TRUE,
                     !.searches_[Back_(solver)].should_restart_ =
                        @ \/ restart]
  /\ g_last' = NoReturn
  /\ UNCHANGED <<parameters, cts, ref, stack, g_snap, g_window, g_order,
                 g_search>>

FinishNext ==
  \/ CNewSearch
  \/ CNextSolution
  \/ CEndSearch
  \/ MFinishCurrentSearch
  \/ NSEntry
  \/ NSRoot
  \/ NSRootFail
  \/ NSLoop
  \/ NSNext
  \/ NSLeaf
  \/ NSOnFail
  \/ NSReturn

FinishInit ==
  /\ SearchInit
  /\ parameters.finish = {}
  /\ parameters.nogood = {}

SpecFinish == FinishInit /\ [][FinishNext]_vars

\* Whether a sentinel with the magic code is on the markers of the search.
HasSentinel(S, code) ==
  \E i \in 1..Len(MarkerStack(S)) :
    /\ MarkerStack(S)[i].type_ = SENTINEL
    /\ MarkerStack(S)[i].info_.int_info = code

\* C23 as stated: while should_finish is set no decision is applied or
\* refuted; the step that clears it is the failure handler of
\* NextSolution(), which pops the markers down to and including the
\* ROOT_NODE sentinel, clears should_restart too and ends the loop with the
\* result false; and when NextSolution() returns false both flags are
\* cleared.
FinishRequestAsStated ==
  [][ /\ ActiveSearch(solver).should_finish_ =>
           solver'.branches_ = solver.branches_
      /\ ActiveSearch(solver).should_finish_
         /\ ~ActiveSearch(solver').should_finish_ =>
           /\ AtPc(stack, {"fail"})
           /\ ~ActiveSearch(solver').should_restart_
           /\ ~HasSentinel(solver', ROOT_NODE_SENTINEL)
           /\ HasSentinel(solver', INITIAL_SEARCH_SENTINEL)
           /\ Top(stack').finish
           /\ ~Top(stack').result
      /\ g_last'.op = "NextSolution" /\ ~g_last'.result /\ stack # <<>> =>
           /\ ~ActiveSearch(solver').should_finish_
           /\ ~ActiveSearch(solver').should_restart_ ]_vars

\* NextSolution() has returned false from the root node, which has failed,
\* and FinishCurrentSearch() called in the root node is still requested.
FinishRequestLeftWitness ==
  /\ g_last.op = "NextSolution"
  /\ ~g_last.result
  /\ g_last.root_failed
  /\ solver.state_ = PROBLEM_INFEASIBLE
  /\ ActiveSearch(solver).should_finish_

\* ------------------------------------ specification: restart of the search
\* A client that opens a search and asks for its solutions, with a monitor
\* that calls RestartCurrentSearch() in one of the callbacks of
\* NextSolution().  g_snap is what held right after the ROOT_NODE sentinel of
\* the search was first pushed, g_order the calls of RestartSearch() on the
\* monitors, and g_window the requests of the monitor, which makes one.

NoRestart == [requests |-> 0, search |-> 0, reported |-> 0]

\* The size of the markers and the lengths of the trail of the search.
SentinelSnapshot(S) ==
  [ size |-> Len(MarkerStack(S)), lengths |-> Lengths(S.trail_),
    memory |-> S.memory, pushed |-> ActiveSearch(S).sentinel_pushed_ ]

RestartInit ==
  /\ parameters \in SearchParameters
  /\ parameters.finish = {}
  /\ parameters.nogood = {}
  /\ ~parameters.at_solution
  /\ solver = AddConstraints(NewSolver(parameters), parameters.constraints)
  /\ stack = <<>>
  /\ g_last = NoReturn
  /\ g_search = NoSearch
  /\ g_snap = SentinelSnapshot(solver)
  /\ g_window = NoRestart
  /\ g_order = <<>>
  /\ cts = <<>>
  /\ ref = <<>>

\* SearchMonitor::RestartCurrentSearch() called by a monitor in a callback of
\* NextSolution().
MRestartCurrentSearch ==
  /\ InCallback
  /\ ~solver.abort_
  /\ ~ActiveSearch(solver).should_restart_
  /\ g_window.requests = 0
  /\ solver' = [solver EXCEPT !.searches_[Back_(solver)].should_restart_ = TRUE]
  /\ g_window' = [g_window EXCEPT !.requests = @ + 1]
  /\ g_last' = NoReturn
  /\ UNCHANGED <<parameters, cts, ref, stack, g_snap, g_order, g_search>>

\* NextSolution(): the try-region of the root node, observed: what holds
\* right after PushSentinel(ROOT_NODE_SENTINEL).
RSRoot ==
  /\ InNextSolution("root")
  /\ \E r \in {ProcessConstraints(solver)}, f \in {Top(stack)} :
        IF r.failed
        THEN /\ solver' = Fail(r.S)
             /\ GoOn("root_fail", f.fd, f.finish, f.result)
             /\ UNCHANGED g_snap
        ELSE /\ solver' = ClearBuffer(
                            [PushSentinel(r.S, ROOT_NODE_SENTINEL) EXCEPT
                               !.state_ = IN_SEARCH])
             /\ GoOn("loop", f.fd, f.finish, f.result)
             /\ g_snap' = SentinelSnapshot(PushSentinel(r.S, ROOT_NODE_SENTINEL))
  /\ g_last' = NoReturn
  /\ UNCHANGED <<parameters, cts, ref, g_search, g_window, g_order>>

\* NextSolution(): CP_ON_FAIL of the loop, observed: the calls of
\* RestartSearch() on the monitors, and the number of the solutions
\* reported by the search before them.
RSOnFail ==
  /\ InNextSolution("fail")
  /\ \E f \in {Top(stack)}, r \in {OnFail(solver, Top(stack).fd, Top(stack).top_level)} :
        /\ solver' = r.S
        /\ GoOn("loop", r.fd, r.finish, IF r.finish THEN FALSE ELSE f.result)
        /\ g_order' = IF r.restarted = <<>> THEN g_order
                      ELSE Append(g_order, r.restarted)
        /\ g_window' = IF r.restarted = <<>> THEN g_window
                       ELSE [g_window EXCEPT
                               !.search = g_search.searches,
                               !.reported = Len(g_search.reported)]
  /\ g_last' = NoReturn
  /\ UNCHANGED <<parameters, cts, ref, g_snap, g_search>>

RestartNext ==
  \/ CNewSearch
  \/ CNextSolution
  \/ CEndSearch
  \/ MRestartCurrentSearch
  \/ NSEntry
  \/ RSRoot
  \/ NSRootFail
  \/ NSLoop
  \/ NSNext
  \/ NSLeaf
  \/ RSOnFail
  \/ NSReturn

SpecRestart == RestartInit /\ [][RestartNext]_vars

\* The order in which the search visits the nodes of the same depth: the
\* left branch first.
VisitedBefore(p, q) ==
  \E k \in 1..Len(p) :
    /\ p[k] < q[k]
    /\ \A j \in 1..(k - 1) : p[j] = q[j]

\* The first solution of the search: the accepted leaf that is visited
\* before the other ones.
FirstSolutions ==
  {p \in AcceptedLeaves : \A q \in AcceptedLeaves \ {p} : VisitedBefore(p, q)}

\* C24: the step that serves a request of restart is the failure handler of
\* the loop of NextSolution(); after it both flags are cleared, the
\* ROOT_NODE sentinel is on top of the markers again, the size of the
\* markers, the lengths of the trail and the memory are those that held
\* right after the sentinel was first pushed, and RestartSearch() has been
\* called once on every monitor of the search, in their order; no other
\* step calls RestartSearch().  The first solution reported after a restart
\* is the first solution of the search.
RestartRestoresSentinel ==
  /\ [][ IF ActiveSearch(solver).should_restart_
            /\ ~ActiveSearch(solver').should_restart_
         THEN /\ AtPc(stack, {"fail"})
              /\ ~ActiveSearch(solver').should_finish_
              /\ TopMarker(solver').type_ = SENTINEL
              /\ TopMarker(solver').info_.int_info = ROOT_NODE_SENTINEL
              /\ SentinelSnapshot(solver') = g_snap
              /\ ~Top(stack').finish
              /\ Top(stack').fd = 0
              /\ g_order' = Append(g_order, ActiveSearch(solver).monitors_)
              /\ Len(ActiveSearch(solver).monitors_) > 0
         ELSE g_order' = g_order ]_vars
  /\ [](/\ Len(g_order) <= g_window.requests
        /\ g_window.search = g_search.searches
           /\ Len(g_search.reported) > g_window.reported =>
              g_search.reported[g_window.reported + 1] \in FirstSolutions)

\* A restart has been requested after the first solution was reported, the
\* request has been served, and the search has reported its first solution
\* a second time.
RestartRestoresSentinelWitness ==
  /\ Len(g_order) = 1
  /\ g_window.search = g_search.searches
  /\ g_window.reported = 1
  /\ Len(g_search.reported) = 2
  /\ g_search.reported[2] = g_search.reported[1]
  /\ g_last.op = "NextSolution"
  /\ g_last.result

\* ------------------------ specification: reversible actions of a nested search
\* Solve() of the client with a decision builder that calls NestedSolve()
\* once; the decision builder of the nested search registers the logging
\* actions, the first and then the second, with AddBacktrackAction().
\* g_order is the actions registered, in the order of their registration.
FirstAction == 7
SecondAction == 8

\* The runs that the logging actions have written down, the oldest first.
RECURSIVE RunsOf(_)
RunsOf(n) ==
  IF n = 0 THEN <<>> ELSE Append(RunsOf(n \div 3), 6 + (n % 3))
RunLog(S) == RunsOf(S.memory[RunLogAddr])

\* Solver::AddBacktrackAction(a, fast) called by the decision builder of
\* the nested search, in Next().
LAddBacktrackAction ==
  /\ InNextSolution("next")
  /\ Len(solver.searches_) = 3
  /\ Len(g_order) < 2
  /\ \E fast \in BOOLEAN :
        solver' = AddBacktrackAction(solver, FirstAction + Len(g_order), fast)
  /\ g_order' = Append(g_order, FirstAction + Len(g_order))
  /\ g_last' = NoReturn
  /\ UNCHANGED <<parameters, cts, ref, stack, g_snap, g_window, g_search>>

LiftNext ==
  \/ CSolve
  \/ SolveReturns
  \/ NNestedSolve
  \/ NNestedSolveReturns
  \/ LAddBacktrackAction
  \/ NSEntry
  \/ NSRoot
  \/ NSRootFail
  \/ NSLoop
  \/ NSNext
  \/ NSLeaf
  \/ NSOnFail
  \/ NSReturn

LiftInit ==
  /\ NestedInit
  /\ parameters.finish = {}
  /\ parameters.nogood = {}
  /\ ~parameters.at_solution

SpecLift == LiftInit /\ [][LiftNext]_vars

\* NestedSolve(db, false) is about to return true: NextSolution() of the
\* nested search has returned true.
Lifting ==
  /\ InFrame("NestedSolve", "returned")
  /\ ~solver.abort_
  /\ g_last.result
  /\ ~Top(stack).restore

\* The actions of the reversible-action markers of a marker stack, from its
\* bottom up.
RECURSIVE ActionsOf(_)
ActionsOf(ms) ==
  IF ms = <<>> THEN <<>>
  ELSE IF ms[Len(ms)].type_ = REVERSIBLE_ACTION
       THEN Append(ActionsOf(SubSeq(ms, 1, Len(ms) - 1)),
                   ms[Len(ms)].info_.ptr_info)
       ELSE ActionsOf(SubSeq(ms, 1, Len(ms) - 1))

\* The elements of a sequence.
Range(s) == {s[i] : i \in 1..Len(s)}

\* The reversible-action markers of a marker stack.
ActionMarkers(ms) == {m \in Range(ms) : m.type_ = REVERSIBLE_ACTION}

LiftKeepsOrder ==
  /\ [][ Lifting =>
           ActionsOf(MarkerStack(solver')) =
             ActionsOf(ParentSearch(solver).marker_stack_)
             \o ActionsOf(MarkerStack(solver)) ]_vars
  /\ [][ /\ solver.memory[FirstAction] = 0
         /\ solver.memory[SecondAction] = 0
         /\ solver'.memory[FirstAction] = 1
         /\ solver'.memory[SecondAction] = 1
         => RunLog(solver') = <<SecondAction, FirstAction>> ]_vars

\* Solve() has returned after NestedSolve(db, false) and no failure, so
\* that both actions were lifted, and the backtrack of the search of
\* Solve() has run the first action and then the second.
LiftReversesOrderWitness ==
  /\ g_window.nested
  /\ g_last.op = "Solve"
  /\ solver.fails_ = 0
  /\ g_order = <<FirstAction, SecondAction>>
  /\ RunLog(solver) = <<FirstAction, SecondAction>>

\* The lengths of the trail that a marker has taken, and whether it has
\* taken them: a fast reversible action takes none.
MarkerLengths(m) ==
  [ rev_ints_ |-> m.rev_int_index_,
    rev_int64s_ |-> m.rev_int64_index_,
    rev_uint64s_ |-> m.rev_uint64_index_,
    rev_ptrs_ |-> m.rev_ptr_index_,
    rev_boolvar_list_ |-> m.rev_boolvar_list_index_,
    rev_bools_ |-> m.rev_bools_index_,
    rev_int_memory_ |-> m.rev_int_memory_index_,
    rev_int64_memory_ |-> m.rev_int64_memory_index_,
    rev_object_memory_ |-> m.rev_object_memory_index_,
    rev_object_array_memory_ |-> m.rev_object_array_memory_index_,
    rev_memory_ |-> m.rev_memory_index_,
    rev_memory_array_ |-> m.rev_memory_array_index_ ]
CarriesLengths(m) == m.type_ # REVERSIBLE_ACTION \/ m.info_.int_info = 0
NoLonger(a, b) == \A k \in DOMAIN a : a[k] <= b[k]

\* The markers of a marker stack that carry lengths carry non-decreasing
\* lengths from the bottom to the top, none longer than the trail tr.
OrderedMarkers(ms, tr) ==
  \A i \in 1..Len(ms) :
    CarriesLengths(ms[i]) =>
      /\ NoLonger(MarkerLengths(ms[i]), Lengths(tr))
      /\ \A j \in (i + 1)..Len(ms) :
            CarriesLengths(ms[j]) =>
              NoLonger(MarkerLengths(ms[i]), MarkerLengths(ms[j]))

\* C27 as stated: in every state, in the marker stack of every search, the
\* lengths carried by the markers are non-decreasing from the bottom to the
\* top and none is longer than the trail, also after NestedSolve() has
\* lifted reversible actions.
SnapshotsOrdered ==
  \A s \in 1..Len(solver.searches_) :
    OrderedMarkers(solver.searches_[s].marker_stack_, solver.trail_)

\* NestedSolve(db, false) has returned true, and on the markers of the
\* parent search the second action, which carries the longer trail, is
\* under the first one.
SnapshotsDisorderedWitness ==
  /\ g_last.op = "NestedSolve"
  /\ g_last.result
  /\ ~g_last.restore
  /\ \E i \in 1..(Len(MarkerStack(solver)) - 1) :
        LET lower == MarkerStack(solver)[i]
            upper == MarkerStack(solver)[i + 1]
        IN /\ lower.info_.ptr_info = SecondAction
           /\ upper.info_.ptr_info = FirstAction
           /\ CarriesLengths(lower)
           /\ CarriesLengths(upper)
           /\ ~NoLonger(MarkerLengths(lower), MarkerLengths(upper))

\* ------------------------------------ specification: the freeze discipline
\* Callers outside and inside the demons that call Enqueue, FreezeQueue and
\* UnfreezeQueue, nested, and ProcessDemonsOnQueue; a demon unfreezes the
\* queue as many times as it has frozen it before it returns.
\* The freeze level of the caller that is outside the demons: the level at
\* which the demons being run have been dispatched.
BaseLevel ==
  IF stack = <<>> THEN solver.queue_.freeze_level_
  ELSE IF stack[1].kind = "Process" THEN 0 ELSE 1

\* Solver::FreezeQueue() by the caller.
ZFreeze ==
  /\ InCaller
  /\ solver.queue_.stamp_ < MaxPendingStamp
  /\ solver' = Freeze(solver)
  /\ g_last' = NoDispatch
  /\ UNCHANGED <<g_search, parameters, cts, ref, g_snap, stack, g_order, g_window>>

\* Solver::UnfreezeQueue() by the caller; a demon unfreezes what it has
\* frozen.
ZUnfreeze ==
  /\ solver.queue_.freeze_level_ > BaseLevel \/ stack = <<>>
  /\ QUnfreeze

\* Solver::ProcessDemonsOnQueue() by the caller outside the demons, on a
\* queue frozen once.
ZProcessDemonsOnQueue ==
  /\ stack = <<>>
  /\ solver.queue_.freeze_level_ = 1
  /\ QProcessDemonsOnQueue

\* demon->Run() returns, the freeze level being the level of its dispatch.
ZRunReturns ==
  /\ solver.queue_.freeze_level_ = BaseLevel
  /\ QRunReturns

FreezeNext ==
  \/ QEnqueue
  \/ ZFreeze
  \/ ZUnfreeze
  \/ ZProcessDemonsOnQueue
  \/ ZRunReturns
  \/ ProcessOuter
  \/ ProcessInner
  \/ ProcessNormal
  \/ ProcessVar
  \/ ProcessDelayed
  \/ ProcessNormalDemons

SpecFreeze == QueueInit /\ [][FreezeNext]_vars

Frozen(S) == S.queue_.freeze_level_ > 0

\* The steps of the queue: an Enqueue that appends the demon, an Unfreeze,
\* the dispatch of a demon, and the beginning of a drain by Process().
EnqueueAppends == TotalPending(solver') = TotalPending(solver) + 1
UnfreezeStep ==
  solver'.queue_.freeze_level_ = solver.queue_.freeze_level_ - 1
DispatchStep == TotalRuns(solver') = TotalRuns(solver) + 1
DrainBegins ==
  /\ Len(stack') = Len(stack) + 1
  /\ Top(stack').kind = "Process"
  /\ ~solver.queue_.in_process_
  /\ solver'.queue_.in_process_
NothingDispatched ==
  /\ stack' = stack
  /\ TotalRuns(solver') = TotalRuns(solver)
  /\ solver'.queue_.in_process_ = solver.queue_.in_process_

\* C28 as stated: on a frozen queue Enqueue appends the demon and
\* dispatches nothing; no demon is dispatched while the queue is frozen, and
\* the Unfreeze that brings the freeze level back to 0 with demons pending
\* begins the drain that dispatches them.
FreezeDisciplineAsStated ==
  [][ /\ EnqueueAppends /\ Frozen(solver) => NothingDispatched
      /\ DispatchStep => ~Frozen(solver)
      /\ UnfreezeStep /\ ~Frozen(solver') /\ TotalPending(solver) > 0 =>
           DrainBegins ]_vars

\* C28, amended: on a frozen queue Enqueue appends the demon and dispatches
\* nothing, and an Unfreeze that leaves the queue frozen dispatches nothing
\* and leaves the queues as they are; a drain by Process() begins only in
\* an Enqueue on a queue that is not frozen or in the Unfreeze that brings
\* the freeze level back to 0, when no drain is in progress, and Process()
\* dispatches no demon while the queue is frozen; the Unfreeze that brings
\* the level back to 0 inside a demon begins no drain and leaves the
\* pending demons to the drain in progress.
FreezeDiscipline ==
  [][ /\ EnqueueAppends /\ Frozen(solver) => NothingDispatched
      /\ UnfreezeStep /\ Frozen(solver') =>
           /\ NothingDispatched
           /\ solver'.queue_.containers_ = solver.queue_.containers_
      /\ DrainBegins =>
           /\ ~Frozen(solver')
           /\ \/ EnqueueAppends /\ ~Frozen(solver)
              \/ UnfreezeStep
      /\ UnfreezeStep /\ ~Frozen(solver') =>
           IF solver.queue_.in_process_
           THEN /\ NothingDispatched
                /\ solver'.queue_.containers_ = solver.queue_.containers_
           ELSE DrainBegins
      /\ DispatchStep /\ stack # <<>> /\ Top(stack).kind = "Process" =>
           ~Frozen(solver) ]_vars

\* A demon being run has frozen the queue and has called Enqueue on a
\* demon, which is pending while the drain is in progress.
FreezeDisciplineWitness ==
  /\ stack # <<>>
  /\ Top(stack).kind = "Run"
  /\ stack[1].kind = "Process"
  /\ solver.queue_.freeze_level_ = 1
  /\ solver.queue_.in_process_
  /\ \E d \in Demons :
        /\ PendingCount(solver, d) = 1
        /\ stamp(solver, d) = solver.queue_.stamp_
        /\ stamp(solver, Top(stack).demon) < solver.queue_.stamp_ - 1

\* The frames of Process() on the stack.
ProcessFrames(stk) == {i \in 1..Len(stk) : stk[i].kind = "Process"}

\* Process() returns: its frame is popped.
ProcessReturns ==
  /\ stack # <<>>
  /\ Top(stack).kind = "Process"
  /\ stack' = Pop(stack)

\* A call of Process() by a demon being run while a drain is in progress:
\* an Enqueue that appends on a queue that is not frozen, or the Unfreeze
\* that brings the freeze level back to 0.
ProcessCalledInDrain ==
  /\ solver.queue_.in_process_
  /\ ~Frozen(solver')
  /\ EnqueueAppends \/ UnfreezeStep

\* C29: when Process() returns the three queues are empty and in_process_
\* is false; Process() has no more than one frame on the stack, and
\* in_process_ is set exactly while it has one; a call of Process() while a
\* drain is in progress dispatches nothing, begins no drain and leaves
\* in_process_ set.
ProcessFixpoint ==
  /\ [][ /\ ProcessReturns =>
              /\ TotalPending(solver') = 0
              /\ \A p \in Priorities : Empty(solver'.queue_.containers_[p])
              /\ ~solver'.queue_.in_process_
              /\ ProcessFrames(stack') = {}
         /\ ProcessCalledInDrain =>
              /\ NothingDispatched
              /\ solver'.queue_.in_process_ ]_vars
  /\ [](/\ Cardinality(ProcessFrames(stack)) <= 1
        /\ solver.queue_.in_process_ <=> ProcessFrames(stack) # {})

\* No Freeze has been called, and a demon being run has called Enqueue on a
\* demon, which is pending: the call of Process() by this Enqueue has
\* returned without dispatching it.
ProcessFixpointWitness ==
  /\ solver.queue_.stamp_ = NewSolver(parameters).queue_.stamp_
  /\ stack # <<>>
  /\ Top(stack).kind = "Run"
  /\ solver.queue_.in_process_
  /\ TotalPending(solver) = 1

\* ---------------------------- specification: the constraints added in search
\* A solver in search: NewSearch() and the root node of NextSolution() on a
\* model without constraints.  The caller, the constraints while they are
\* posted and the demons while they run call AddConstraint() and Enqueue().
\* g_search is the constraints appended and the number of the calls made
\* while a constraint is being posted, g_snap the constraints on which
\* PostAndPropagate() has been called.
MaxAdds == 3

InSearchSolver(params) ==
  [PushSentinel(
     ProcessConstraints(
       CP_TRY([NewSearch(NewSolver(params)) EXCEPT !.state_ = IN_ROOT_NODE])).S,
     ROOT_NODE_SENTINEL)
   EXCEPT !.state_ = IN_SEARCH,
          !.demons_ = [d \in Demons |-> IF d = 1 THEN NORMAL_PRIORITY
                                        ELSE IF d = 2 THEN VAR_PRIORITY
                                        ELSE DELAYED_PRIORITY]]

PostInit ==
  /\ parameters \in [trail_block_size : {1}, compress_trail : {NO_COMPRESSION}]
  /\ solver = InSearchSolver(parameters)
  /\ stack = <<>>
  /\ g_last = NoDispatch
  /\ g_window = NoWindow
  /\ g_order = [p \in Priorities |-> <<>>]
  /\ g_snap = <<>>
  /\ g_search = [appended |-> <<>>, nested |-> 0]
  /\ cts = <<>>
  /\ ref = <<>>

\* The frame of Constraint::PostAndPropagate() of to_add_[counter] after
\* its call of UnfreezeQueue(); before it the frame is PostFrame(counter).
PostedFrame(counter) == [kind |-> "Posted", pc |-> counter, demon |-> 0]

\* The frames of ProcessConstraints() on the stack.
PostFrames(stk) == {i \in 1..Len(stk) : stk[i].kind \in {"Post", "Posted"}}

\* The constraint that the frame on top of the stack posts.
Posting(S, stk) == S.queue_.to_add_[Top(stk).pc + 1]

MutPostsAtOnce(S, stk) ==
  [S |-> Freeze([S EXCEPT !.queue_.in_add_ = TRUE]),
   stack |-> Append(stk, PostFrame(Len(S.queue_.to_add_) - 1))]

\* Queue::ProcessConstraints() up to the first PostAndPropagate(), which
\* calls FreezeQueue(): nothing when a call of ProcessConstraints() is
\* going on.
QueueProcessConstraints(S, stk) ==
  IF ~S.queue_.in_add_
  THEN [S |-> Freeze([S EXCEPT !.queue_.in_add_ = TRUE]),
        stack |-> Append(stk, PostFrame(0))]
  ELSE [S |-> S, stack |-> stk]

\* Solver::AddConstraint(c) by the caller, by the constraint being posted
\* or by the demon being run: Queue::AddConstraint(c).
YAddConstraint ==
  \E c \in {Equality(1), Equality(2)} :
    /\ InCaller
    /\ Len(g_search.appended) < MaxAdds
    /\ \E r \in {QueueProcessConstraints(AddConstraint(solver, c), stack)} :
          /\ solver' = r.S
          /\ stack' = r.stack
          /\ g_snap' = IF r.stack # stack
                       THEN Append(g_snap, Posting(r.S, r.stack))
                       ELSE g_snap
    /\ g_search' = [ appended |-> Append(g_search.appended, c),
                     nested |-> IF solver.queue_.in_add_
                                THEN g_search.nested + 1
                                ELSE g_search.nested ]
    /\ g_last' = NoDispatch
    /\ UNCHANGED <<parameters, cts, ref, g_window, g_order>>

\* Constraint::PostAndPropagate(): Post() and InitialPropagate() have
\* returned, and UnfreezeQueue() is called.
YPostUnfreezes ==
  /\ stack # <<>>
  /\ Top(stack).kind = "Post"
  /\ \E r \in {ProcessIfUnfrozen(
                 Unfreeze(solver),
                 Append(Pop(stack), PostedFrame(Top(stack).pc)))} :
        /\ solver' = r.S
        /\ stack' = r.stack
  /\ g_last' = NoDispatch
  /\ UNCHANGED <<parameters, cts, ref, g_snap, g_window, g_order, g_search>>

\* Queue::ProcessConstraints(): PostAndPropagate() returns; the loop posts
\* the next constraint of to_add_, or ends.
YPostReturns ==
  /\ stack # <<>>
  /\ Top(stack).kind = "Posted"
  /\ IF Top(stack).pc + 1 < Len(solver.queue_.to_add_)
     THEN /\ stack' = Append(Pop(stack), PostFrame(Top(stack).pc + 1))
          /\ solver' = Freeze(solver)
          /\ g_snap' = Append(g_snap, Posting(solver, stack'))
     ELSE /\ stack' = Pop(stack)
          /\ solver' = [solver EXCEPT !.queue_.in_add_ = FALSE,
                                      !.queue_.to_add_ = <<>>]
          /\ UNCHANGED g_snap
  /\ g_last' = NoDispatch
  /\ UNCHANGED <<parameters, cts, ref, g_window, g_order, g_search>>

\* Queue::Enqueue(d) by the constraint being posted or by a demon that
\* its propagation runs.
YEnqueue == PostFrames(stack) # {} /\ QEnqueue

AddingNext ==
  \/ YAddConstraint
  \/ YPostUnfreezes
  \/ YPostReturns
  \/ YEnqueue
  \/ QRunReturns
  \/ ProcessOuter
  \/ ProcessInner
  \/ ProcessNormal
  \/ ProcessVar
  \/ ProcessDelayed

SpecPost == PostInit /\ [][AddingNext]_vars

\* s is the beginning of t.
IsPrefix(s, t) == Len(s) <= Len(t) /\ s = SubSeq(t, 1, Len(s))

NO_CHANGE == "NO_CHANGE"
SWITCH_BRANCHES == "SWITCH_BRANCHES"
KEEP_LEFT == "KEEP_LEFT"
KEEP_RIGHT == "KEEP_RIGHT"
KILL_BOTH == "KILL_BOTH"
Modifications == {NO_CHANGE, SWITCH_BRANCHES, KEEP_LEFT, KEEP_RIGHT, KILL_BOTH}

\* ReverseDecision(d), and the decision that a decision reverses.
ReverseDecision(d) == 0 - d
Reversed(d) == IF d < 0 THEN 0 - d ELSE d

\* d->Apply (apply) or d->Refute of a decision that may be a
\* ReverseDecision.
DecisionBranch(S, d, apply) ==
  Branch(S, Reversed(d), IF (d > 0) = apply THEN 1 ELSE 2)

\* ApplyDecision(d) or RefuteDecision(d), the branch, AfterDecision(); move
\* is whether LeftMove() or RightMove() follows.
DecisionRun(S_, d, apply, move) ==
  Only({(
    IF CheckFail(S)
    THEN [S |-> S, failed |-> TRUE, ran |-> FALSE]
    ELSE \* AfterDecision() and the move
         IF move
         THEN AfterDecision(DecisionBranch(S, d, apply), apply)
         ELSE LET r == DecisionBranch(S, d, apply)
              IN [S |-> r.S, failed |-> r.failed \/ CheckFail(r.S),
                  ran |-> TRUE]
  ) : S \in {S_}})

\* case NO_CHANGE of the switch, on d or on its ReverseDecision.
ChoiceBranch(S_, d) ==
  Only({(
    DecisionRun(
      [PushState([S EXCEPT !.decisions_ = @ + 1], CHOICE_POINT,
                 StateInfo(d, 0, ActiveSearch(S).search_depth_,
                           ActiveSearch(S).left_search_depth_))
       EXCEPT !.branches_ = @ + 1],
      d, TRUE, TRUE)
  ) : S \in {S_}})

MutKeepOpensChoice(S, d, modification) ==
  IF modification = KILL_BOTH
  THEN [S |-> S, failed |-> TRUE, ran |-> FALSE]
  ELSE ChoiceBranch(S, IF modification \in {SWITCH_BRANCHES, KEEP_RIGHT}
                       THEN ReverseDecision(d) ELSE d)

\* switch (modification) of NextSolution() on the decision d.
ModifiedBranch(S, d, modification) ==
  CASE modification = SWITCH_BRANCHES -> ChoiceBranch(S, ReverseDecision(d))
    [] modification = NO_CHANGE -> ChoiceBranch(S, d)
    [] modification = KEEP_LEFT -> DecisionRun(S, d, TRUE, FALSE)
    [] modification = KEEP_RIGHT -> DecisionRun(S, d, FALSE, FALSE)
    [] modification = KILL_BOTH -> [S |-> S, failed |-> TRUE, ran |-> FALSE]

\* The right branch of NextSolution() on a decision that may be a
\* ReverseDecision.
RefuteChoice(S_, fd) ==
  Only({(
    DecisionRun(
      [PushState(S, CHOICE_POINT,
                 StateInfo(fd, 1, ActiveSearch(S).search_depth_,
                           ActiveSearch(S).left_search_depth_))
       EXCEPT !.branches_ = @ + 1],
      fd, FALSE, TRUE)
  ) : S \in {S_}})

SelectInit ==
  /\ parameters \in SearchParameters
  /\ parameters.reject = {}
  /\ parameters.finish = {}
  /\ ~parameters.at_solution
  /\ solver = AddConstraints(NewSolver(parameters), parameters.constraints)
  /\ stack = <<>>
  /\ g_last = NoReturn
  /\ g_search = NoSearch
  /\ g_snap = <<>>
  /\ g_window \in [selector : [1..MaxDepth -> Modifications]]
  /\ g_order = <<>>
  /\ cts = <<>>
  /\ ref = <<>>

\* NextSolution(): the top of the loop, as NSLoop.
DLoop ==
  /\ InNextSolution("loop")
  /\ ~Top(stack).finish
  /\ LET f == Top(stack)
     IN IF f.fd # 0
        THEN \E r \in {RefuteChoice(CP_TRY(solver), f.fd)} :
             /\ solver' = IF r.failed THEN Fail(r.S) ELSE r.S
             /\ GoOn(IF r.failed THEN "fail" ELSE "next",
                     IF r.failed THEN f.fd ELSE 0, f.finish, f.result)
             /\ g_search' = [g_search EXCEPT
                               !.visited = IF r.ran
                                           THEN @ \cup {CurrentPath(r.S)}
                                           ELSE @]
        ELSE /\ solver' = CP_TRY(solver)
             /\ GoOn("next", f.fd, f.finish, f.result)
             /\ UNCHANGED g_search
  /\ g_last' = NoReturn
  /\ UNCHANGED <<parameters, cts, ref, g_snap, g_window, g_order>>

\* NextSolution(): one turn of for (;;): BeginNextDecision, db->Next,
\* EndNextDecision, ModifyDecision and the switch.
DNext ==
  /\ InNextSolution("next")
  /\ LET f == Top(stack)
         d == Next(solver)
     IN IF CheckFail(solver)
        THEN /\ solver' = Fail(solver)
             /\ GoOn("fail", f.fd, f.finish, f.result)
             /\ UNCHANGED g_search
        ELSE IF d = 0
        THEN /\ GoOn("leaf", f.fd, f.finish, f.result)
             /\ UNCHANGED <<solver, g_search>>
        ELSE \E r \in {ModifiedBranch(solver, d, g_window.selector[d])} :
             /\ solver' = IF r.failed THEN Fail(r.S) ELSE r.S
             /\ GoOn(IF r.failed THEN "fail" ELSE "next",
                     f.fd, f.finish, f.result)
             /\ g_search' = [g_search EXCEPT
                               !.visited = IF r.ran
                                           THEN @ \cup {CurrentPath(r.S)}
                                           ELSE @]
  /\ g_last' = NoReturn
  /\ UNCHANGED <<parameters, cts, ref, g_snap, g_window, g_order>>

SelectNext ==
  \/ CNewSearch
  \/ CNextSolution
  \/ CEndSearch
  \/ NSEntry
  \/ NSRoot
  \/ NSRootFail
  \/ DLoop
  \/ DNext
  \/ NSLeaf
  \/ NSOnFail
  \/ NSReturn

SpecSelect == SelectInit /\ [][SelectNext]_vars

\* The switch is reached on decision d: the step is DNext on a decision.
AtSwitch(d) ==
  /\ InNextSolution("next")
  /\ ~CheckFail(solver)
  /\ d = Next(solver)
  /\ d # 0

\* The markers, the counters decisions and branches and the depths.
Counted(S) ==
  <<MarkerStack(S), S.decisions_, S.branches_>>

\* The branch of decision d that a node is in.
BranchOf(p, d) == IF Len(p) < d THEN 0 ELSE p[d]

\* C31: on KEEP_LEFT (KEEP_RIGHT) the switch runs Apply (Refute) of the
\* decision only: the variable takes the value of the left (right) branch,
\* no marker is pushed and decisions and branches are unchanged; on
\* KILL_BOTH memory, markers and counters are unchanged and the failure is
\* raised; no node of the other branch of a kept decision, and no node of
\* a killed decision, is ever visited, and no choice point of such a
\* decision is on the marker stack.
DecisionModifications ==
  /\ [][\A d \in 1..MaxDepth :
          AtSwitch(d) =>
            /\ g_window.selector[d] \in {KEEP_LEFT, KEEP_RIGHT} =>
                 /\ solver'.memory[VarAddr(d)] =
                      (IF g_window.selector[d] = KEEP_LEFT THEN 1 ELSE 2)
                 /\ \A a \in DOMAIN solver.memory :
                      a # VarAddr(d) => solver'.memory[a] = solver.memory[a]
                 /\ Counted(solver') = Counted(solver)
                 /\ CurrentPath(solver') \in g_search'.visited
            /\ g_window.selector[d] = KILL_BOTH =>
                 /\ solver'.memory = solver.memory
                 /\ Counted(solver') = Counted(solver)
                 /\ g_search' = g_search
                 /\ solver'.fails_ = solver.fails_ + 1
                 /\ Top(stack').pc = "fail"]_vars
  /\ [](stack # <<>> /\ "selector" \in DOMAIN g_window =>
          \A d \in 1..MaxDepth :
            /\ \A p \in g_search.visited \cup {CurrentPath(solver)} :
                 /\ g_window.selector[d] = KEEP_LEFT => BranchOf(p, d) # 2
                 /\ g_window.selector[d] = KEEP_RIGHT => BranchOf(p, d) # 1
                 /\ g_window.selector[d] = KILL_BOTH => BranchOf(p, d) = 0
            /\ g_window.selector[d] \in {KEEP_LEFT, KEEP_RIGHT, KILL_BOTH} =>
                 \A i \in 1..Len(MarkerStack(solver)) :
                   MarkerStack(solver)[i].type_ = CHOICE_POINT =>
                     Reversed(MarkerStack(solver)[i].info_.ptr_info) # d)

\* A search has kept the right branch of the first decision and opened a
\* choice point on the next, and is in the right branch of every decision.
DecisionModificationsWitness ==
  /\ InNextSolution("next")
  /\ g_window.selector = [d \in 1..MaxDepth |->
                            IF d = 1 THEN KEEP_RIGHT ELSE NO_CHANGE]
  /\ CurrentPath(solver) = [d \in 1..MaxDepth |-> 2]
  /\ solver.decisions_ > 0
  /\ solver.fails_ > 0

\* ---------------------------- specification: the leaves of every search
\* The searches of the client by NewSearch() and by Solve(), and a
\* NestedSolve() called once by the decision builder of either.
LeafInit ==
  /\ NestedInit
  /\ parameters.nogood = {}
  /\ parameters.finish = {}
  /\ parameters.reject \in {{}, {[d \in 1..MaxDepth |-> 1]}}

LeafNext ==
  \/ CNewSearch
  \/ CNextSolution
  \/ CEndSearch
  \/ CSolve
  \/ SolveReturns
  \/ NNestedSolve
  \/ NNestedSolveReturns
  \/ NSEntry
  \/ NSRoot
  \/ NSRootFail
  \/ NSLoop
  \/ NSNext
  \/ NSLeaf
  \/ NSOnFail
  \/ NSReturn

SpecLeaf == LeafInit /\ [][LeafNext]_vars

\* The active search is a search inside a search.
IsNested(S) == Len(S.searches_) > 2

\* The step is NextSolution() at a leaf that the monitors accept.
AcceptedLeafStep ==
  /\ InNextSolution("leaf")
  /\ stack' # stack
  /\ g_search'.leaf.accepted

\* NextSolution() raises a failure, or ends its loop with result true at
\* the leaf it is at.
RaisesFailure == Top(stack').pc = "fail" /\ solver'.fails_ = solver.fails_ + 1
ReturnsTrueAtLeaf ==
  /\ Top(stack').pc = "loop"
  /\ Top(stack').finish
  /\ Top(stack').result
  /\ solver'.fails_ = solver.fails_
  /\ CurrentPath(solver') = CurrentPath(solver)

\* C32 as stated: after an accepted leaf NextSolution() raises a failure if
\* and only if a monitor has returned true from AtSolution() and the active
\* search is nested, and returns true at the leaf otherwise.
ContinuationAsStated ==
  [][AcceptedLeafStep =>
       IF g_search'.leaf.continues /\ IsNested(solver)
       THEN RaisesFailure ELSE ReturnsTrueAtLeaf]_vars

\* C32: after an accepted leaf NextSolution() raises a failure if and only
\* if a monitor has returned true from AtSolution() and the active search
\* was created by Solve() or NestedSolve(), nested or not; in a search
\* opened by NewSearch(), and when no monitor has returned true, it returns
\* true at the leaf.  A nested search is always created by NestedSolve().
Continuation ==
  /\ [][AcceptedLeafStep =>
          IF g_search'.leaf.continues /\ ActiveSearch(solver).created_by_solve_
          THEN RaisesFailure ELSE ReturnsTrueAtLeaf]_vars
  /\ [](IsNested(solver) => ActiveSearch(solver).created_by_solve_)

\* A Solve() of the client that is not nested has raised a failure at an
\* accepted leaf where the monitor asked to go on.
ContinuationWitness ==
  /\ InNextSolution("fail")
  /\ ~IsNested(solver)
  /\ ActiveSearch(solver).created_by_solve_
  /\ g_search.leaf.accepted
  /\ g_search.leaf.continues
  /\ CurrentPath(solver) \in Leaves
  /\ ActiveSearch(solver).solution_counter_ = 1

\* ---------------------------- specification: repeated saves of a location
\* The client pushes markers, saves and writes an int and a bool any number
\* of times and pops the markers.  g_last is what the last PopState found
\* on the trail above its marker and the memory before it.
RepeatAddrs == {1, 5}

\* The cells of a compressed trail, oldest first.
RECURSIVE CellsOf(_)
CellsOf(ct) ==
  IF size(ct) = 0 THEN <<>> ELSE Append(CellsOf(PopBack(ct)), Back(ct))

\* The values that the saves of the location a have captured above the
\* marker m, oldest first.
RECURSIVE ValuesOf(_, _, _)
ValuesOf(cells, from, a) ==
  IF from > Len(cells) THEN <<>>
  ELSE (IF cells[from].address_ = a THEN <<cells[from].old_value_>> ELSE <<>>)
       \o ValuesOf(cells, from + 1, a)
BoolCells(tr) ==
  [i \in 1..Len(tr.rev_bools_) |->
     addrval(tr.rev_bools_[i], tr.rev_bool_value_[i])]
Captured(S, m, a) ==
  IF a \in BoolAddrs
  THEN ValuesOf(BoolCells(S.trail_), m.rev_bools_index_ + 1, a)
  ELSE ValuesOf(CellsOf(S.trail_.rev_ints_), m.rev_int_index_ + 1, a)

\* save_*(addr) then the write of a value at addr, on the int and the bool.
RSaveAndWrite ==
  \E a \in RepeatAddrs, v \in Values :
    /\ TrailCells(solver) < MaxSaves + 1
    /\ solver' = [InternalSaveValue(solver, a) EXCEPT !.memory[a] = v]
    /\ g_last' = NoLast
    /\ UNCHANGED <<g_search, parameters, cts, ref, g_snap, stack, g_window, g_order>>

\* Solver::PopState() of a simple marker.
RPopState ==
  /\ TopMarker(solver).type_ = SIMPLE_MARKER
  /\ solver' = PopState(solver)
  /\ g_snap' = SubSeq(g_snap, 1, Len(g_snap) - 1)
  /\ g_last' = [op |-> "PopState",
                captured |-> [a \in RepeatAddrs |->
                                Captured(solver, TopMarker(solver), a)],
                before |-> solver.memory]
  /\ UNCHANGED <<g_search, parameters, cts, ref, stack, g_window, g_order>>

SavesNext == TPushState \/ RSaveAndWrite \/ RPopState

SpecSaves == TrailInit /\ [][SavesNext]_vars

ClosedInit ==
  /\ SearchInit
  /\ parameters.nogood = {}
  /\ parameters.finish = {}
  /\ ~parameters.at_solution

\* NextSolution() called by the client after EndSearch(), with no
\* NewSearch() in between, once (g_window).
XNextSolution ==
  /\ AtClient
  /\ Closed(solver)
  /\ g_window = <<>>
  /\ g_window' = <<g_search.searches>>
  /\ stack' = <<NextSolutionFrame("entry", 0, FALSE, FALSE, FALSE)>>
  /\ g_search' = [g_search EXCEPT !.call_branches = solver.branches_,
                                  !.call_decisions = solver.decisions_]
  /\ g_last' = NoReturn
  /\ UNCHANGED <<parameters, cts, ref, solver, g_snap, g_order>>

ClosedNext ==
  \/ CNewSearch
  \/ CNextSolution
  \/ XNextSolution
  \/ CEndSearch
  \/ NSEntry
  \/ NSRoot
  \/ NSRootFail
  \/ NSLoop
  \/ NSNext
  \/ NSLeaf
  \/ NSOnFail
  \/ NSReturn

SpecClosed == ClosedInit /\ [][ClosedNext]_vars

\* No search is open: none was ever opened, or the last one was closed by
\* EndSearch().
NeverOpened(S) ==
  /\ S.state_ = OUTSIDE_SEARCH
  /\ Len(S.searches_) = 2
  /\ ActiveSearch(S).decision_builder_ = 0
NoSearchOpen(S) == NeverOpened(S) \/ Closed(S)

\* C34: a NextSolution() of the client that begins while no search is open
\* returns false at once and leaves the solver as it is: no state change,
\* no marker, no constraint posted, no monitor called.
NextSolutionWithoutSearch ==
  [][InNextSolution("entry") /\ Len(stack) = 1 /\ NoSearchOpen(solver) =>
       /\ stack' = <<>>
       /\ g_last'.op = "NextSolution"
       /\ ~g_last'.result
       /\ solver' = solver]_vars

\* NextSolution() called on a closed search has returned true: it has run
\* the root node and the decision builder of the closed search, without
\* the INITIAL_SEARCH sentinel and without monitors.
NextSolutionOnClosedWitness ==
  /\ stack = <<>>
  /\ g_last.op = "NextSolution"
  /\ g_last.result
  /\ solver.state_ = AT_SOLUTION
  /\ ~HasSentinel(solver, INITIAL_SEARCH_SENTINEL)
  /\ HasSentinel(solver, ROOT_NODE_SENTINEL)
  /\ ActiveSearch(solver).monitors_ = <<>>
  /\ CurrentPath(solver) \in Leaves

\* ---------------------------- the terminal states of a top-level search
\* The state is NO_MORE_SOLUTIONS or PROBLEM_INFEASIBLE.
Terminal(S) == S.state_ \in {NO_MORE_SOLUTIONS, PROBLEM_INFEASIBLE}

\* C35: a NextSolution() of the client that begins in a terminal state
\* returns false at once and leaves the solver as it is: the state, the
\* markers, the trail, the memory and the counters; and only NewSearch(),
\* EndSearch() and Solve(), which begins with NewSearch(), take the solver
\* out of a terminal state.
TerminalAbsorbing ==
  /\ [][InNextSolution("entry") /\ Len(stack) = 1 /\ Terminal(solver) =>
          /\ stack' = <<>>
          /\ g_last'.op = "NextSolution"
          /\ ~g_last'.result
          /\ solver' = solver]_vars
  /\ [][Terminal(solver) /\ solver' # solver =>
          \/ solver' = NewSearch(solver)
          \/ solver' = EndSearch(solver)
          \/ solver' = [NewSearch(solver) EXCEPT
                          !.searches_[Back_(solver)].created_by_solve_ = TRUE]]_vars

\* NextSolution() has returned false from a search that was already
\* infeasible at the call: a call that fails in the root node returns with
\* root_failed.
TerminalAbsorbingWitness ==
  /\ stack = <<>>
  /\ g_last.op = "NextSolution"
  /\ ~g_last.result
  /\ ~g_last.root_failed
  /\ solver.state_ = PROBLEM_INFEASIBLE
  /\ g_search.searches > 0

\* ---------------------------- specification: where AddConstraint() puts
\* The client adds constraints between its calls, opens searches and calls
\* CheckConstraint(ct); the decision builder of every search is the one of
\* MakeConstraintAdder(ct), with ct = g_window.ct; constraints of the model
\* add constraints when they are posted in the root node.
MaxConstraints == 3

RoutingModels ==
  { <<>>,
    <<Equality(1)>>,
    <<Equality(1), Equality(2)>>,
    <<Adder(Equality(1)), Equality(1)>>,
    <<Adder(Equality(1)), Adder(Adder(Equality(1)))>> }
AddedConstraints == {Equality(1), Equality(2), Adder(Equality(2))}

RoutingInit ==
  /\ parameters \in [ trail_block_size : {1}, compress_trail : {NO_COMPRESSION},
                      constraints : RoutingModels, nogood : {{}},
                      reject : {{}}, finish : {{}}, at_solution : {FALSE} ]
  /\ solver = AddConstraints(NewSolver(parameters), parameters.constraints)
  /\ stack = <<>>
  /\ g_last = NoReturn
  /\ g_search = NoSearch
  /\ g_snap = <<>>
  /\ g_window \in [ct : AddedConstraints]
  /\ g_order = <<>>
  /\ cts = <<>>
  /\ ref = <<>>

\* Queue::ProcessConstraints(): the loop on to_add_ from index i, then
\* in_add_ = false and to_add_.clear().
RECURSIVE QueuePostFrom(_, _)
QueuePostFrom(S_, i) ==
  Only({(
    IF i >= Len(S.queue_.to_add_)
    THEN [S |-> [S EXCEPT !.queue_.in_add_ = FALSE, !.queue_.to_add_ = <<>>],
          failed |-> FALSE]
    ELSE LET r == PostAndPropagate(S, S.queue_.to_add_[i + 1])
         IN IF r.failed THEN r ELSE QueuePostFrom(r.S, i + 1)
  ) : S \in {S_}})

\* Solver::AddConstraint(c) with all that it calls: in search,
\* Queue::AddConstraint(c) and Queue::ProcessConstraints().
AddAndPost(S, c) ==
  IF S.state_ = IN_SEARCH /\ ~S.queue_.in_add_
  THEN QueuePostFrom([AddConstraint(S, c) EXCEPT !.queue_.in_add_ = TRUE], 0)
  ELSE [S |-> AddConstraint(S, c), failed |-> FALSE]

\* Solver::AddConstraint(c) by the client, between its calls.
RAddConstraint ==
  \E c \in AddedConstraints :
    /\ AtClient
    /\ Len(solver.constraints_list_) < MaxConstraints
    /\ solver' = AddAndPost(solver, c).S
    /\ g_last' = [op |-> "AddConstraint", result |-> FALSE,
                  root_failed |-> FALSE, c |-> c, before |-> solver]
    /\ UNCHANGED <<parameters, cts, ref, stack, g_snap, g_search, g_window,
                   g_order>>

\* NextSolution(): one turn of for (;;) with AddConstraintDecisionBuilder:
\* Next() calls AddConstraint(constraint_) and returns NULL.
KNext ==
  /\ InNextSolution("next")
  /\ LET f == Top(stack)
     IN IF CheckFail(solver)
        THEN /\ solver' = Fail(solver)
             /\ GoOn("fail", f.fd, f.finish, f.result)
        ELSE \E r \in {AddAndPost(solver, g_window.ct)} :
             /\ solver' = IF r.failed THEN Fail(r.S) ELSE r.S
             /\ GoOn(IF r.failed THEN "fail" ELSE "leaf",
                     f.fd, f.finish, f.result)
  /\ g_last' = [op |-> "Next", result |-> FALSE, root_failed |-> FALSE,
                before |-> solver]
  /\ UNCHANGED <<parameters, cts, ref, g_snap, g_search, g_window, g_order>>

RoutingNext ==
  \/ CNewSearch
  \/ CNextSolution
  \/ CEndSearch
  \/ CSolve
  \/ SolveReturns
  \/ RAddConstraint
  \/ NSEntry
  \/ NSRoot
  \/ NSRootFail
  \/ NSLoop
  \/ KNext
  \/ NSLeaf
  \/ NSOnFail
  \/ NSReturn

SpecRouting == RoutingInit /\ [][RoutingNext]_vars

\* The constraints that the root node is to post after those of the model,
\* with the index of the constraint of the model that each comes from: a
\* constraint added by a constraint of the model has the index of that
\* constraint, and a constraint added by an added constraint inherits the
\* index of the one that adds it.
RECURSIVE AddedByModel(_, _)
AddedByModel(model, i) ==
  IF i > Len(model) THEN <<>>
  ELSE (IF AddsConstraint(model[i])
        THEN <<[c |-> model[i].adds, parent |-> i - 1]>> ELSE <<>>)
       \o AddedByModel(model, i + 1)
RECURSIVE AddedByAdded(_, _)
AddedByAdded(list, j) ==
  IF j > Len(list) THEN list
  ELSE AddedByAdded(IF AddsConstraint(list[j].c)
                    THEN Append(list, [c |-> list[j].c.adds,
                                       parent |-> list[j].parent])
                    ELSE list,
                    j + 1)
Additional(model) == AddedByAdded(AddedByModel(model, 1), 1)

\* AddConstraint() outside a search appends to constraints_list_ and does
\* nothing else; in search it appends nothing to the lists of the model
\* and posts the constraint at once; nothing but the AddConstraint() of
\* the client between its calls changes constraints_list_, so that
\* CheckConstraint() leaves it as it is; and what a search has posted is
\* undone when the search is closed.
RoutingByState ==
  /\ [](g_last.op = "AddConstraint" =>
          /\ g_last.before.state_ \notin {IN_SEARCH, IN_ROOT_NODE}
          /\ solver = [g_last.before EXCEPT
                         !.constraints_list_ = Append(@, g_last.c)])
  /\ [](g_last.op = "Next" /\ g_last.before.state_ = IN_SEARCH =>
          /\ solver.constraints_list_ = g_last.before.constraints_list_
          /\ solver.additional_constraints_list_ =
               g_last.before.additional_constraints_list_
          /\ InNextSolution("leaf") =>
               /\ solver.queue_.to_add_ = <<>>
               /\ ~AddsConstraint(g_window.ct) =>
                    solver.memory[g_window.ct.var] = g_window.ct.value)
  /\ [][solver'.constraints_list_ # solver.constraints_list_ =>
          stack = <<>> /\ g_last'.op = "AddConstraint"]_vars
  /\ [](stack = <<>> /\ solver.state_ = OUTSIDE_SEARCH /\ ~solver.abort_ =>
          \A a \in Addrs : solver.memory[a] = 0)

\* In the root node every constraint added is on the additional list with
\* the index of the constraint of the model it comes from.
ParentIndexes ==
  [][InNextSolution("root") /\ InNextSolution("loop")' =>
       /\ solver'.additional_constraints_list_ =
            [j \in 1..Len(Additional(solver.constraints_list_)) |->
               Additional(solver.constraints_list_)[j].c]
       /\ solver'.additional_constraints_parent_list_ =
            [j \in 1..Len(Additional(solver.constraints_list_)) |->
               Additional(solver.constraints_list_)[j].parent]]_vars

\* C36 as stated: AddConstraint() posts through the queue in IN_SEARCH
\* only, appends to the additional list with the index of its parent in
\* IN_ROOT_NODE and to the constraints of the model in every other state,
\* and CheckConstraint() leaves the constraints of the model unchanged.
ConstraintRouting == RoutingByState /\ ParentIndexes

\* The root node has posted a model whose second constraint adds a
\* constraint that adds a constraint: the last one is on the additional
\* list with the index of the first constraint of the model.
ConstraintRoutingWitness ==
  /\ InNextSolution("loop")
  /\ solver.constraints_list_ =
       <<Adder(Equality(1)), Adder(Adder(Equality(1)))>>
  /\ solver.additional_constraints_list_ =
       <<Equality(1), Adder(Equality(1)), Equality(1)>>
  /\ solver.additional_constraints_parent_list_ = <<0, 1, 0>>

\* ---------------------------- specification: NewSearch() on an open search
\* The client of SpecSearch, which also calls NewSearch() while a search is
\* open and NextSolution() is not running: NewSearch() goes back to the
\* INITIAL_SEARCH sentinel itself.
MonitorsInit ==
  /\ SearchInit
  /\ parameters.nogood = {}
  /\ parameters.finish = {}
  /\ ~parameters.at_solution

\* A search is open: NewSearch() has been called and EndSearch() has not.
Open(S) == ActiveSearch(S).decision_builder_ # 0 /\ ~Closed(S) /\ ~S.abort_

\* NewSearch(db, monitor) by the client on an open search, once (g_window).
ONewSearch ==
  /\ AtClient
  /\ Open(solver)
  /\ g_window = <<>>
  /\ g_window' = <<g_search.searches>>
  /\ solver' = NewSearch(solver)
  /\ g_snap' = Snapshot(solver')
  /\ g_search' = [NoSearch EXCEPT !.searches = g_search.searches + 1]
  /\ g_last' = NoReturn
  /\ UNCHANGED <<parameters, cts, ref, stack, g_order>>

MonitorsNext ==
  \/ CNewSearch
  \/ ONewSearch
  \/ CNextSolution
  \/ CEndSearch
  \/ NSEntry
  \/ NSRoot
  \/ NSRootFail
  \/ NSLoop
  \/ NSNext
  \/ NSLeaf
  \/ NSOnFail
  \/ NSReturn

SpecMonitors == MonitorsInit /\ [][MonitorsNext]_vars

\* The monitors that NewSearch() installs.
Installed == <<PropagationMonitor, ClientMonitor, SecondMonitor>>

\* C37: while a search is open its monitors are those that its NewSearch()
\* has installed, once each, and at a leaf AcceptSolution() is called once
\* on each.
MonitorList ==
  /\ Open(solver) => ActiveSearch(solver).monitors_ = Installed
  /\ g_search.leaf.reached =>
       [i \in 1..Len(g_search.leaf.accept) |-> g_search.leaf.accept[i].m]
         = Installed

\* A search opened by NewSearch() on an open search has the monitors of
\* both, and at a leaf AcceptSolution() has been called twice on each.
MonitorListWitness ==
  /\ Open(solver)
  /\ ActiveSearch(solver).monitors_ = Installed \o Installed
  /\ g_search.leaf.reached
  /\ Len(g_search.leaf.accept) = 2 * Len(Installed)
  /\ solver.state_ = AT_SOLUTION

\* ------------------------------------------------------- the depth counters
\* The CHOICE_POINT markers of the active search of S, and those of its left
\* branches (int_info 0).
ChoicePoints(S) ==
  {i \in 1..Len(MarkerStack(S)) : MarkerStack(S)[i].type_ = CHOICE_POINT}

LeftChoicePoints(S) ==
  {i \in ChoicePoints(S) : MarkerStack(S)[i].info_.int_info = 0}

\* The steps of the search that call BacktrackToSentinel(): EndSearch(),
\* NewSearch(), the failure of the root node, and a restart in the failure
\* handler of NextSolution().
BacktracksToSentinel ==
  \/ AtClient /\ solver' = EndSearch(solver)
  \/ AtClient /\ solver' = NewSearch(solver)
  \/ InNextSolution("root_fail")
  \/ InNextSolution("fail") /\ g_order' # g_order

EscapeInit ==
  /\ parameters \in SearchParameters
  /\ parameters.nogood = {}
  /\ parameters.finish = {}
  /\ parameters.reject \in {{}, {[d \in 1..MaxDepth |-> 1]}}
  /\ ~parameters.at_solution
  /\ solver = AddConstraints(NewSolver(parameters), parameters.constraints)
  /\ stack = <<>>
  /\ g_last = NoReturn
  /\ g_search = NoSearch
  /\ g_snap = <<>>
  /\ g_window = [nested |-> FALSE]
  /\ g_order = [checks |-> 0, requests |-> 0]
  /\ cts = <<>>
  /\ ref = <<>>

\* Solver::CheckAssignment(solution) up to its try-region: the backtrack
\* to the INITIAL_SEARCH sentinel, EnterSearch, the sentinel, CP_TRY and
\* the state IN_ROOT_NODE.
CheckAssignmentCall(S_) ==
  Only({(
    IF S.state_ \in {IN_SEARCH, IN_ROOT_NODE}
    THEN Abort(S)
    ELSE [CP_TRY(PushSentinel(
            [BacktrackToSentinel(
               [S EXCEPT !.searches_[Back_(S)].created_by_solve_ = FALSE],
               INITIAL_SEARCH_SENTINEL)
               EXCEPT !.state_ = OUTSIDE_SEARCH],
            INITIAL_SEARCH_SENTINEL))
            EXCEPT !.state_ = IN_ROOT_NODE]
  ) : S \in {S_}})

\* The try-region of CheckAssignment(): restore->Next() assigns the value
\* of the solution to x, then ProcessConstraints(): the solver and whether
\* Fail() is called.
CheckAssignmentTry(S_, value) ==
  Only({(
    IF S.memory[XAddr] \notin {0, value}
    THEN [S |-> S, failed |-> TRUE]
    ELSE ProcessConstraints(IF S.memory[XAddr] = 0
                            THEN SetValue(S, XAddr, value) ELSE S)
  ) : S \in {S_}})

\* CheckAssignment() after its try-region: the backtrack, ClearBuffer and
\* OUTSIDE_SEARCH, or CP_ON_FAIL with AfterFailure, the backtrack and
\* PROBLEM_INFEASIBLE.
CheckAssignmentEnd(r_) ==
  Only({(
    IF r.failed
    THEN [BacktrackToSentinel(AfterFailure(Fail(r.S)),
                              INITIAL_SEARCH_SENTINEL)
            EXCEPT !.state_ = PROBLEM_INFEASIBLE]
    ELSE [ClearBuffer(BacktrackToSentinel(r.S, INITIAL_SEARCH_SENTINEL))
            EXCEPT !.state_ = OUTSIDE_SEARCH]
  ) : r \in {r_}})

CheckAssignmentFrame(value) ==
  [kind |-> "CheckAssignment", pc |-> "try", value |-> value]

\* NewSearch(db, monitor) by the client, once.
ENewSearch ==
  /\ AtClient
  /\ g_search.searches = 0
  /\ solver' = NewSearch(solver)
  /\ g_snap' = Snapshot(solver')
  /\ g_search' = [NoSearch EXCEPT !.searches = 1]
  /\ g_last' = NoReturn
  /\ UNCHANGED <<parameters, cts, ref, stack, g_window, g_order>>

\* CheckAssignment(solution) called by the client while no search is open,
\* once, with x = value in the solution.
ECheckAssignment ==
  /\ AtClient
  /\ g_order.checks = 0
  /\ NeverOpened(solver) \/ Closed(solver)
  /\ \E value \in {1, 2} :
        stack' = <<CheckAssignmentFrame(value)>>
  /\ solver' = CheckAssignmentCall(solver)
  /\ g_order' = [g_order EXCEPT !.checks = @ + 1]
  /\ g_last' = NoReturn
  /\ UNCHANGED <<parameters, cts, ref, g_snap, g_search, g_window>>

\* CheckAssignment(): its try-region and its return.
ECheckAssignmentReturns ==
  /\ InFrame("CheckAssignment", "try")
  /\ ~solver.abort_
  /\ \E r \in {CheckAssignmentTry(solver, Top(stack).value)} :
        /\ solver' = CheckAssignmentEnd(r)
        /\ g_last' = [op |-> "CheckAssignment", result |-> ~r.failed,
                      root_failed |-> r.failed]
  /\ stack' = <<>>
  /\ UNCHANGED <<parameters, cts, ref, g_snap, g_search, g_window, g_order>>

\* SearchMonitor::RestartCurrentSearch() or FinishCurrentSearch(), or both,
\* called once by a monitor of the active search in a callback.
ERequest ==
  /\ InCallback
  /\ ~solver.abort_
  /\ g_order.requests = 0
  /\ \E finish, restart \in BOOLEAN :
        /\ finish \/ restart
        /\ solver' = [solver EXCEPT
                        !.searches_[Back_(solver)].should_finish_ =
                           @ \/ finish,
                        !.searches_[Back_(solver)].should_restart_ =
                           @ \/ restart]
  /\ g_order' = [g_order EXCEPT !.requests = @ + 1]
  /\ g_last' = NoReturn
  /\ UNCHANGED <<parameters, cts, ref, stack, g_snap, g_window, g_search>>

EscapeNext ==
  \/ ENewSearch
  \/ CNextSolution
  \/ CEndSearch
  \/ ECheckAssignment
  \/ ECheckAssignmentReturns
  \/ NNestedSolve
  \/ NNestedSolveReturns
  \/ ERequest
  \/ NSEntry
  \/ NSRoot
  \/ NSRootFail
  \/ NSLoop
  \/ NSNext
  \/ NSLeaf
  \/ NSOnFail
  \/ NSReturn

SpecEscape == EscapeInit /\ [][EscapeNext]_vars

\* The armed flag of the escape buffer of the active search.
Armed(S) == ActiveSearch(S).jmpbuf_filled_

\* The steps that enter a try-region: an iteration of the loop of
\* NextSolution(), its root node, and CheckAssignment().
EntersTry ==
  \/ InNextSolution("loop") /\ ~Top(stack).finish
  \/ InNextSolution("entry") /\ stack' # <<>> /\ Top(stack').pc = "root"
  \/ AtClient /\ stack' # <<>> /\ Top(stack').kind = "CheckAssignment"

\* ClearBuffer() is about to be called: the root node has propagated, the
\* loop of NextSolution() has ended with a solution, or the try-region of
\* CheckAssignment() has succeeded; S is the solver at the call.
ClearBufferCalls ==
  IF solver.abort_ \/ stack = <<>> THEN {}
  ELSE IF InNextSolution("root")
  THEN {r.S : r \in {r \in {ProcessConstraints(solver)} : ~r.failed}}
  ELSE IF InNextSolution("loop") /\ Top(stack).finish /\ Top(stack).result
  THEN {solver}
  ELSE IF InFrame("CheckAssignment", "try")
  THEN {r.S : r \in {r \in {CheckAssignmentTry(solver, Top(stack).value)} :
                       ~r.failed}}
  ELSE {}

\* NextSolution(), CheckAssignment() or NestedSolve() returns: the search
\* of NestedSolve() is the active search until it is popped.
Returns ==
  \/ g_last.op \in {"NextSolution", "CheckAssignment"}
  \/ InFrame("NestedSolve", "returned")

\* C39: the buffer of the search is not armed when a try-region is entered
\* and is armed when ClearBuffer() is called, so that no check aborts, and
\* it is not armed when NextSolution(), CheckAssignment() or NestedSolve()
\* returns.
EscapeBuffer ==
  /\ [][EntersTry => ~Armed(solver) /\ ~solver'.abort_]_vars
  /\ [](\A S \in ClearBufferCalls : Armed(S))
  /\ [](~solver.abort_ /\ Returns => ~Armed(solver))

\* NextSolution() has returned true to NestedSolve(), after a request of
\* the monitor, in the search of a client that has called CheckAssignment().
EscapeBufferWitness ==
  /\ InFrame("NestedSolve", "returned")
  /\ g_last.op = "NextSolution"
  /\ g_last.result
  /\ g_order = [checks |-> 1, requests |-> 1]
  /\ ~Armed(solver)
  /\ Armed([solver EXCEPT !.searches_ = SubSeq(@, 1, Len(@) - 1)])

\* ------------------------------------- the structure of a compressed trail
\* The cells of the trail that are not in data_: those of the packed
\* blocks and of the buffer when it is used.
StoredCells(ct) ==
  ct.block_size_ * (Len(ct.blocks_) + IF ct.buffer_used_ THEN 1 ELSE 0)

\* C40: after any PushBack() and PopBack(), size_ is current_ plus
\* block_size_ cells for each packed block and for the buffer when it is
\* used, current_ is in 1..block_size_ while the trail is not empty, and it
\* is 0 exactly when the trail is empty: Back() reads a cell of data_.
CompressedTrailStructure ==
  \A m \in TrailCompression :
    /\ cts[m].size_ = cts[m].current_ + StoredCells(cts[m])
    /\ cts[m].size_ > 0 => cts[m].current_ \in 1..cts[m].block_size_
    /\ cts[m].current_ = 0 <=> cts[m].size_ = 0

\* PopBack() has taken the buffer back while a packed block remains:
\* data_ is full, and the trail holds two blocks of cells.
CompressedTrailStructureWitness ==
  \A m \in TrailCompression :
    /\ Len(cts[m].blocks_) = 1
    /\ ~cts[m].buffer_used_
    /\ cts[m].current_ = cts[m].block_size_
    /\ cts[m].size_ = 2 * cts[m].block_size_
    /\ Len(ref) = cts[m].size_
====
